---- MODULE Spec2Model ----
(***************************************************************************)
(* Be-Spelling: the spaced-repetition scheduler (simplified SM-2), the     *)
(* Dexie repositories it stores its records in, the auto-rating heuristic  *)
(* and the study page's handlers, as state machines.                       *)
(*                                                                         *)
(* Numbers.  ease is a JavaScript double that only ever moves by +0.10,    *)
(* -0.14 and -0.54 from 2.5 and is floored at 1.3; it is kept here as an   *)
(* integer number of hundredths (2.5 is 250).  Timestamps, ISO strings and *)
(* milliseconds in the program, are integers counting days.                *)
(***************************************************************************)
EXTENDS Integers, Sequences, FiniteSets, TLC

VARIABLES
  words,      \* db.words   : id -> [text]
  reviews,    \* db.reviews : sequence (auto-increment order) of [wordId, ts, rating]
  srs,        \* db.srs     : wordId -> [ease, interval, due, reps]
  now,        \* the wall clock (new Date() / Date.now())
  tx,         \* the Dexie read-write transaction in progress, or NoTx
  last,       \* the last completed call, its arguments and what it returned
  streak,     \* wordId -> successful updateSRS calls since the record last had reps 0
  updates,    \* ratings recorded so far
  page,       \* StudyPage: its useState cells and what it has in flight
  typo,       \* a call of isSlightlyWrong: its arguments and its result
  manage,     \* ManagePage: what its handlers hold between their awaits
  route       \* POST /api/generate-words: recentRequests and the last response

vars == <<words, reviews, srs, now, tx, last, streak, updates, page, typo, manage,
          route>>

----------------------------------------------------------------------------
(* Bounds of the exploration *)

NumWords == 2      \* ids a uuid can take
MaxNow == 1        \* the clock stops here
MaxUpdates == 3    \* ratings explored with the scheduler
MaxStoreUpdates == 2  \* ratings explored with the repositories

WordIds == 1..NumWords
Texts == {<< "c", "a", "t" >>}
Ratings == {"NAILED", "ALMOST", "STUMPED"}

----------------------------------------------------------------------------
(* Tables *)

Put(t, k, v) == [x \in (DOMAIN t) \cup {k} |-> IF x = k THEN v ELSE t[x]]

Remove(t, k) == [x \in (DOMAIN t) \ {k} |-> t[x]]

EmptyTable == [x \in {} |-> 0]

NoTx == [op |-> "none"]

Idle == [op |-> "none"]

Store == [words |-> words, reviews |-> reviews, srs |-> srs]

Unmounted == [mounted |-> FALSE]

NoCall == [done |-> FALSE]

NoSnapshot == [taken |-> FALSE]

NoData == [arrays |-> {}]

\* ManagePage with no handler running: pc is where the running handler
\* stands, snapshot the file the last export downloaded, data what
\* importDataFromFile parsed, newIds what addWords returned (at addedAt;
\* initAt is when their SRS records were made)
ManageIdle ==
  [pc |-> "idle", handler |-> "none", snapshot |-> NoSnapshot, data |-> NoData,
   newIds |-> {}, addedAt |-> 0, initAt |-> 0, exports |-> 0, imports |-> 0]

NoRequest == [at |-> 0]

NoResponse == [status |-> 0]

\* the route's process as it starts: recentRequests is empty.  clock is
\* Date.now(), posts the requests served, admitted the requests that passed
\* the limiter, refusals the RATE_LIMIT responses since the last of them,
\* request and response the last exchange
RouteIdle ==
  [recentRequests |-> << >>, clock |-> 0, posts |-> 0, apiKey |-> TRUE,
   admitted |-> << >>, refusals |-> << >>, request |-> NoRequest,
   response |-> NoResponse]

----------------------------------------------------------------------------
(* lib/srs/scheduler.ts *)

EaseFloor == 130

InitialEase == 250

ratingToQuality(rating) ==
  CASE rating = "NAILED" -> 5
    [] rating = "ALMOST" -> 3
    [] rating = "STUMPED" -> 1
    [] OTHER -> 1

\* Math.round(interval * ease), ease in hundredths, both non-negative
RoundProduct(interval, ease) == (interval * ease + 50) \div 100

Max(a, b) == IF a >= b THEN a ELSE b

Min(a, b) == IF a <= b THEN a ELSE b

EaseDeltaLinear(q) == 10 - (5 - q) * 8

\* 0.1 - (5 - q) * (0.08 + (5 - q) * 0.02), in hundredths
EaseDelta(q) == 10 - (5 - q) * (8 + (5 - q) * 2)

NextEaseNoFloor(ease, q) == ease + EaseDelta(q)

NextEase(ease, q) == Max(EaseFloor, ease + EaseDelta(q))

NextRepsAlmostFails(reps, q) == IF q <= 3 THEN 0 ELSE reps + 1

NextReps(reps, q) == IF q < 3 THEN 0 ELSE reps + 1

NextIntervalNewEase(interval, ease, reps, q) ==
  IF q < 3 THEN 1
  ELSE IF reps + 1 = 1 THEN 1
  ELSE IF reps + 1 = 2 THEN 6
  ELSE RoundProduct(interval, Max(EaseFloor, ease + 10 - (5 - q) * (8 + (5 - q) * 2)))

NextInterval(interval, ease, reps, q) ==
  IF q < 3 THEN 1
  ELSE IF reps + 1 = 1 THEN 1
  ELSE IF reps + 1 = 2 THEN 6
  ELSE RoundProduct(interval, ease)

\* now.setDate(now.getDate() + intervalDays)
calculateDueDate(t, intervalDays) == t + intervalDays

FreshSRS(t) == [ease |-> InitialEase, interval |-> 0, due |-> t, reps |-> 0]

\* the record updateSRS stores for a word whose record (after the
\* initialize-if-missing step) is rec
UpdatedSRS(rec, rating, t) ==
  LET q == ratingToQuality(rating)
      interval == NextInterval(rec.interval, rec.ease, rec.reps, q)
  IN [ease |-> NextEase(rec.ease, q),
      interval |-> interval,
      due |-> calculateDueDate(t, interval),
      reps |-> NextReps(rec.reps, q)]

----------------------------------------------------------------------------
(* lib/storage/repositories.ts *)

Null == 0

RECURSIVE IndexOrder(_, _)
\* the rows S of table t in the order of Dexie's index on 'due': by due,
\* rows of equal due by primary key
IndexOrder(t, S) ==
  IF S = {} THEN << >>
  ELSE LET m == CHOOSE x \in S : \A y \in S :
                  \/ t[x].due < t[y].due
                  \/ (t[x].due = t[y].due /\ x <= y)
       IN << m >> \o IndexOrder(t, S \ {m})

getDueWordsBelow(t, n) == IndexOrder(t, {w \in DOMAIN t : t[w].due < n})

\* db.srs.where('due').belowOrEqual(now).toArray(), as the wordIds of the rows
getDueWords(t, n) == IndexOrder(t, {w \in DOMAIN t : t[w].due <= n})

addReview(rs, wordId, rating, t) ==
  Append(rs, [wordId |-> wordId, ts |-> t, rating |-> rating])

initializeSRSDueNextDay(t, wordId, n) == Put(t, wordId, FreshSRS(n + 1))

initializeSRS(t, wordId, n) == Put(t, wordId, FreshSRS(n))

\* db.reviews.where('wordId').equals(id).delete()
DeleteReviewsOf(rs, id) ==
  LET Keep(r) == r.wordId # id IN SelectSeq(rs, Keep)

----------------------------------------------------------------------------
(* lib/srs/scheduler.ts, continued *)

EarlyPoolCapSix == 5 + 1

EarlyPoolCap == 5

RECURSIVE InsertByDue(_, _, _)
\* w inserted into the due-sorted sequence s behind every row that does not
\* compare greater: Array.prototype.sort is stable
InsertByDue(t, s, w) ==
  IF s = << >> THEN << w >>
  ELSE IF t[Head(s)].due <= t[w].due
       THEN << Head(s) >> \o InsertByDue(t, Tail(s), w)
       ELSE << w >> \o s

RECURSIVE SortByDue(_, _)
\* dueWords.sort((a, b) => new Date(a.due).getTime() - new Date(b.due).getTime())
SortByDue(t, s) ==
  IF s = << >> THEN << >>
  ELSE InsertByDue(t, SortByDue(t, SubSeq(s, 1, Len(s) - 1)), s[Len(s)])

IsBrandNew(rec) == rec.interval = 0 /\ rec.reps = 0

IsEarly(rec) == (rec.interval = 0 /\ rec.reps = 0) \/ rec.reps < 2

\* what updateSRS leaves in the table
updateSRS(t, wordId, rating, n) ==
  LET t1 == IF wordId \in DOMAIN t THEN t ELSE initializeSRS(t, wordId, n)
  IN Put(t1, wordId, UpdatedSRS(t1[wordId], rating, n))

\* every value getNextWord can return, Math.random() being free
NextWordChoices(t, n) ==
  LET dueWords == SortByDue(t, getDueWords(t, n))
      Early(w) == IsEarly(t[w])
      earlyPool == SelectSeq(dueWords, Early)
      sample == SubSeq(earlyPool, 1, Min(EarlyPoolCap, Len(earlyPool)))
  IN IF Len(dueWords) = 0 THEN {Null}
     ELSE IF Len(earlyPool) > 1 THEN {sample[i] : i \in 1..Len(sample)}
     ELSE {dueWords[1]}

----------------------------------------------------------------------------
(* app/page.tsx: isSlightlyWrong.  Strings are sequences of characters. *)

Abs(x) == IF x < 0 THEN 0 - x ELSE x

\* the for loop of the transposition check: it stops at the first index
\* i < a.length - 1 where a and b differ
TranspositionFound(a, b) ==
  LET M == {i \in 1..(Len(a) - 1) : a[i] # b[i]}
  IN IF M = {} THEN FALSE
     ELSE LET i == CHOOSE x \in M : \A y \in M : x <= y
          IN /\ a[i] = b[i + 1]
             /\ a[i + 1] = b[i]
             /\ SubSeq(a, i + 2, Len(a)) = SubSeq(b, i + 2, Len(b))

RECURSIVE EditWalk(_, _, _, _, _)
\* the while loop and what follows it, from positions i, j with edits counted
EditWalk(a, b, i, j, edits) ==
  IF i <= Len(a) /\ j <= Len(b)
  THEN IF a[i] = b[j] THEN EditWalk(a, b, i + 1, j + 1, edits)
       ELSE IF edits + 1 > 1 THEN FALSE
       ELSE IF Len(a) = Len(b) THEN EditWalk(a, b, i + 1, j + 1, edits + 1)
       ELSE IF Len(a) > Len(b) THEN EditWalk(a, b, i + 1, j, edits + 1)
       ELSE EditWalk(a, b, i, j + 1, edits + 1)
  ELSE (IF i <= Len(a) \/ j <= Len(b) THEN edits + 1 ELSE edits) = 1

isSlightlyWrongNoEmptyGuard(a, b) ==
  IF Abs(Len(a) - Len(b)) > 1 THEN FALSE
  ELSE IF Len(a) = Len(b) /\ a # b /\ TranspositionFound(a, b) THEN TRUE
  ELSE EditWalk(a, b, 1, 1, 0)

isSlightlyWrong(a, b) ==
  IF a = << >> \/ b = << >> THEN FALSE
  ELSE IF Abs(Len(a) - Len(b)) > 1 THEN FALSE
  ELSE IF Len(a) = Len(b) /\ a # b /\ TranspositionFound(a, b) THEN TRUE
  ELSE EditWalk(a, b, 1, 1, 0)

----------------------------------------------------------------------------
(* The store driven through its repositories and the scheduler service *)

Init ==
  /\ words = EmptyTable
  /\ reviews = << >>
  /\ srs = EmptyTable
  /\ now = 0
  /\ tx = NoTx
  /\ last = Idle
  /\ streak = [w \in WordIds |-> 0]
  /\ updates = 0
  /\ page = Unmounted
  /\ typo = NoCall
  /\ manage = ManageIdle
  /\ route = RouteIdle

\* ids the store does not mention: what uuidv4() can return
FreshIds ==
  WordIds \ ((DOMAIN words) \cup (DOMAIN srs)
             \cup {reviews[i].wordId : i \in 1..Len(reviews)})

\* a day passes; a transaction does not stay open that long
Tick ==
  /\ tx = NoTx
  /\ now < MaxNow
  /\ now' = now + 1
  /\ last' = Idle
  /\ UNCHANGED <<words, reviews, srs, tx, streak, updates, page, typo, manage, route>>

AddWord(id, text) ==
  /\ tx = NoTx
  /\ id \in FreshIds
  /\ words' = Put(words, id, [text |-> text])
  /\ last' = Idle
  /\ UNCHANGED <<reviews, srs, now, tx, streak, updates, page, typo, manage, route>>

InitializeSRS(id) ==
  /\ tx = NoTx
  /\ srs' = initializeSRS(srs, id, now)
  /\ streak' = [streak EXCEPT ![id] = 0]
  /\ last' = Idle
  /\ UNCHANGED <<words, reviews, now, tx, updates, page, typo, manage, route>>

\* what handleRating writes for the word on screen: the review row, then
\* the new schedule
RateWord(id, rating) ==
  /\ tx = NoTx
  /\ updates' = updates + 1
  /\ reviews' = addReview(reviews, id, rating, now)
  /\ srs' = updateSRS(srs, id, rating, now)
  /\ streak' = [streak EXCEPT ![id] = IF rating = "STUMPED" THEN 0 ELSE @ + 1]
  /\ last' = [op |-> "updateSRS", wordId |-> id, rating |-> rating,
              before |-> IF id \in DOMAIN srs THEN srs[id] ELSE FreshSRS(now)]
  /\ UNCHANGED <<words, now, tx, page, typo, manage, route>>

GetNextWord ==
  /\ tx = NoTx
  /\ \E pick \in NextWordChoices(srs, now) :
       last' = [op |-> "getNextWord", result |-> pick]
  /\ UNCHANGED <<words, reviews, srs, now, tx, streak, updates, page, typo, manage, route>>

(* WordRepository.deleteWord: three deletes inside db.transaction('rw', ...). *)
(* The deletes act on the transaction's view of the tables; the tables the   *)
(* rest of the program reads change when the transaction commits, and not at *)
(* all when it aborts.                                                       *)

\* a transaction over the three tables as it opens: its view of the tables
\* and where its callback stands
Transaction(op, pc, id) ==
  [op |-> op, pc |-> pc, id |-> id,
   words |-> words, reviews |-> reviews, srs |-> srs, before |-> Store]

DeleteWordBegin(id) ==
  /\ tx = NoTx
  /\ tx' = Transaction("deleteWord", "words", id)
  /\ last' = Idle
  /\ UNCHANGED <<words, reviews, srs, now, streak, updates, page, typo, manage, route>>

\* the first delete issued outside the transaction
TxDeleteWordUnwrapped ==
  /\ tx.op = "deleteWord" /\ tx.pc = "words"
  /\ words' = Remove(words, tx.id)
  /\ tx' = [tx EXCEPT !.words = Remove(@, tx.id), !.pc = "reviews"]
  /\ UNCHANGED <<reviews, srs, now, last, streak, updates, page, typo, manage, route>>

TxDeleteWord ==
  /\ tx.op = "deleteWord" /\ tx.pc = "words"
  /\ tx' = [tx EXCEPT !.words = Remove(@, tx.id), !.pc = "reviews"]
  /\ UNCHANGED <<words, reviews, srs, now, last, streak, updates, page, typo, manage, route>>

TxDeleteReviews ==
  /\ tx.op = "deleteWord" /\ tx.pc = "reviews"
  /\ tx' = [tx EXCEPT !.reviews = DeleteReviewsOf(@, tx.id), !.pc = "srs"]
  /\ UNCHANGED <<words, reviews, srs, now, last, streak, updates, page, typo, manage, route>>

TxDeleteSRS ==
  /\ tx.op = "deleteWord" /\ tx.pc = "srs"
  /\ tx' = [tx EXCEPT !.srs = Remove(@, tx.id), !.pc = "commit"]
  /\ UNCHANGED <<words, reviews, srs, now, last, streak, updates, page, typo, manage, route>>

\* the promise of db.transaction settles for the handler that awaits it
Settle(m, outcome) == IF m.pc = "transaction" THEN [m EXCEPT !.pc = outcome] ELSE m

TxCommit ==
  /\ tx.op # "none" /\ tx.pc = "commit"
  /\ words' = tx.words
  /\ reviews' = tx.reviews
  /\ srs' = tx.srs
  /\ streak' = [w \in WordIds |-> IF w \in DOMAIN tx.srs THEN streak[w] ELSE 0]
  /\ tx' = NoTx
  /\ last' = [op |-> tx.op, ok |-> TRUE, wordId |-> tx.id, before |-> tx.before]
  /\ manage' = Settle(manage, "resolved")
  /\ UNCHANGED <<now, updates, page, typo, route>>

\* a request of the transaction fails, or the transaction is aborted: Dexie
\* rolls back and rejects the promise
TxAbort ==
  /\ tx.op # "none"
  /\ tx' = NoTx
  /\ last' = [op |-> tx.op, ok |-> FALSE, wordId |-> tx.id, before |-> tx.before]
  /\ manage' = Settle(manage, "rejected")
  /\ UNCHANGED <<words, reviews, srs, now, streak, updates, page, typo, route>>

Next ==
  \/ Tick
  \/ \E id \in WordIds, text \in Texts : AddWord(id, text)
  \/ \E id \in WordIds : InitializeSRS(id)
  \/ \E id \in WordIds, rating \in Ratings :
       updates < MaxUpdates /\ RateWord(id, rating)
  \/ GetNextWord

Spec == Init /\ [][Next]_vars

----------------------------------------------------------------------------
(* The repositories with deleteWord's transaction *)

NextStore ==
  \/ Tick
  \/ \E id \in WordIds, text \in Texts : AddWord(id, text)
  \/ \E id \in WordIds : InitializeSRS(id)
  \/ \E id \in WordIds, rating \in Ratings :
       updates < MaxStoreUpdates /\ RateWord(id, rating)
  \/ \E id \in WordIds : DeleteWordBegin(id)
  \/ TxDeleteWord
  \/ TxDeleteReviews
  \/ TxDeleteSRS
  \/ TxCommit
  \/ TxAbort

SpecStore == Init /\ [][NextStore]_vars

----------------------------------------------------------------------------
(* Properties of the scheduler *)

Rated == last.op = "updateSRS"

Success(rating) == rating \in {"NAILED", "ALMOST"}

\* C1: every stored SRS record has ease >= 1.3 and interval >= 0
C1_EaseFloorIntervalNonNeg ==
  \A w \in DOMAIN srs : srs[w].ease >= 130 /\ srs[w].interval >= 0

\* a review whose ease update would have gone below 1.3 has been stored
C1_Witness ==
  /\ Rated
  /\ last.before.ease - 54 < 130
  /\ last.rating = "STUMPED"
  /\ srs[last.wordId].ease = 130

\* C2: a STUMPED review stores interval 1 and reps 0 whatever the record
\* was; a NAILED or ALMOST review stores the previous reps plus one
C2_FailResetsSuccessIncrements ==
  Rated =>
    LET r == srs[last.wordId]
    IN /\ last.rating = "STUMPED" => r.interval = 1 /\ r.reps = 0
       /\ Success(last.rating) => r.reps = last.before.reps + 1 /\ r.reps > 0

\* a record with two successes behind it has been STUMPED
C2_Witness ==
  /\ Rated
  /\ last.rating = "STUMPED"
  /\ last.before.reps >= 2
  /\ last.before.interval > 1

\* C3: the k-th success in a row from reps 0 stores interval 1 for k = 1,
\* 6 for k = 2 and, for k >= 3, the integer nearest to the previous
\* interval times the ease stored before the review (halves go up)
C3_IntervalSequence ==
  (Rated /\ Success(last.rating)) =>
    LET k == streak[last.wordId]
        r == srs[last.wordId]
        x == last.before.interval * last.before.ease
    IN /\ k = 1 => r.interval = 1
       /\ k = 2 => r.interval = 6
       /\ k >= 3 => /\ 200 * r.interval - 100 <= 2 * x
                    /\ 2 * x < 200 * r.interval + 100

\* a third success in a row has been stored
C3_Witness ==
  /\ Rated
  /\ Success(last.rating)
  /\ streak[last.wordId] >= 3
  /\ srs[last.wordId].interval > 6

\* C4: every review moves ease by +0.10 (NAILED), -0.14 (ALMOST) or -0.54
\* (STUMPED) and floors it at 1.3
C4_EaseUpdate ==
  Rated =>
    LET d == CASE last.rating = "NAILED" -> 10
               [] last.rating = "ALMOST" -> 0 - 14
               [] last.rating = "STUMPED" -> 0 - 54
        e == last.before.ease + d
    IN srs[last.wordId].ease = (IF e < 130 THEN 130 ELSE e)

\* a failed review has lowered an ease that stays above the floor, after a
\* NAILED one had raised it above the initial 2.5
C4_Witness ==
  /\ Rated
  /\ last.rating = "STUMPED"
  /\ last.before.ease > 250
  /\ srs[last.wordId].ease = last.before.ease - 54

\* C5: getNextWord returns null exactly when no SRS record has due <= now,
\* and otherwise the wordId of an SRS record with due <= now
C5_NextWordIsDue ==
  last.op = "getNextWord" =>
    /\ last.result = Null <=> ~ \E w \in DOMAIN srs : srs[w].due <= now
    /\ last.result # Null =>
         /\ last.result \in DOMAIN srs
         /\ srs[last.result].due <= now

\* a word due this instant has been returned while the record of another
\* stored word is not yet due
C5_Witness ==
  /\ last.op = "getNextWord"
  /\ last.result # Null
  /\ srs[last.result].due = now
  /\ \E w \in DOMAIN words : w \in DOMAIN srs /\ srs[w].due > now

----------------------------------------------------------------------------
(* getNextWord over the tables a study history leaves behind *)

NumSelWords == 6   \* words of the selection tables

SelBase == 7

SelIds == 1..NumSelWords

SelKinds == {"absent", "new", "newer", "young", "mature"}

\* what the store holds for word w: nothing; a record as initializeSRS made
\* it at time d; a record NAILED once, at d - 1; a record NAILED twice, at
\* d - 7 and d - 6.  Each is due at d.
SelShape(w, k) ==
  CASE k = "absent" -> [kind |-> "absent", due |-> 0]
    [] k = "new" -> [kind |-> "new", due |-> SelBase + w - 1]
    [] k = "newer" -> [kind |-> "new", due |-> SelBase + w]
    [] k = "young" -> [kind |-> "young", due |-> SelBase + w]
    [] k = "mature" -> [kind |-> "mature", due |-> SelBase + w]

SelRecord(shape) ==
  CASE shape.kind = "new" -> FreshSRS(shape.due)
    [] shape.kind = "young" ->
         UpdatedSRS(FreshSRS(shape.due - 1), "NAILED", shape.due - 1)
    [] shape.kind = "mature" ->
         UpdatedSRS(UpdatedSRS(FreshSRS(shape.due - 7), "NAILED", shape.due - 7),
                    "NAILED", shape.due - 6)

SelReviewsOf(w, shape) ==
  CASE shape.kind = "young" ->
         {[wordId |-> w, ts |-> shape.due - 1, rating |-> "NAILED"]}
    [] shape.kind = "mature" ->
         {[wordId |-> w, ts |-> shape.due - 7, rating |-> "NAILED"],
          [wordId |-> w, ts |-> shape.due - 6, rating |-> "NAILED"]}
    [] OTHER -> {}

RECURSIVE InTimeOrder(_)
InTimeOrder(S) ==
  IF S = {} THEN << >>
  ELSE LET m == CHOOSE x \in S : \A y \in S :
                  \/ x.ts < y.ts
                  \/ (x.ts = y.ts /\ x.wordId <= y.wordId)
       IN << m >> \o InTimeOrder(S \ {m})

InitSelect ==
  \E kind \in [SelIds -> SelKinds] :
    /\ LET shape == [w \in SelIds |-> SelShape(w, kind[w])]
           present == {w \in SelIds : kind[w] # "absent"}
       IN /\ words = [w \in present |-> [text |-> << "c", "a", "t" >>]]
          /\ srs = [w \in present |-> SelRecord(shape[w])]
          /\ reviews = InTimeOrder(UNION {SelReviewsOf(w, shape[w]) : w \in present})
          /\ streak = [w \in WordIds |->
                         IF w \in present THEN srs[w].reps ELSE 0]
          /\ updates = Len(reviews)
    /\ now \in {SelBase + 2, SelBase + NumSelWords}
    /\ tx = NoTx
    /\ last = Idle
    /\ page = Unmounted
    /\ typo = NoCall
    /\ manage = ManageIdle
    /\ route = RouteIdle

NextSelect == GetNextWord

SpecSelect == InitSelect /\ [][NextSelect]_vars

DueNow == {w \in DOMAIN srs : srs[w].due <= now}

EarlyDueNow == {w \in DueNow : srs[w].reps < 2}

\* C6: with two or more early-stage (reps < 2) records due, getNextWord
\* returns an early-stage due record that fewer than 5 early-stage due
\* records precede in due time; otherwise it returns a due record that no
\* due record precedes in due time
C6_SelectionPolicy ==
  (last.op = "getNextWord" /\ last.result # Null) =>
    IF Cardinality(EarlyDueNow) >= 2
    THEN /\ last.result \in EarlyDueNow
         /\ Cardinality({w \in EarlyDueNow :
                           srs[w].due < srs[last.result].due}) < 5
    ELSE /\ last.result \in DueNow
         /\ \A w \in DueNow : srs[last.result].due <= srs[w].due

\* six early-stage records are due and the fifth of them in due time has
\* been returned
C6_Witness ==
  /\ last.op = "getNextWord"
  /\ last.result # Null
  /\ Cardinality(EarlyDueNow) >= 6
  /\ Cardinality({w \in EarlyDueNow : srs[w].due < srs[last.result].due}) = 4
  /\ \E w \in EarlyDueNow : srs[w].reps = 1

----------------------------------------------------------------------------
(* Properties of deleteWord *)

ReviewsOfOthers(rs, id) ==
  LET Other(r) == r.wordId # id IN SelectSeq(rs, Other)

\* C10: deleteWord(id) is atomic.  While it runs the tables hold what they
\* held when it began; once it has succeeded the word id, every review of
\* id and the SRS record of id are gone and every other row is as it was;
\* once it has failed the tables are as they were when it began
C10_DeleteWordAtomic ==
  /\ tx.op = "deleteWord" => Store = tx.before
  /\ (last.op = "deleteWord" /\ ~ last.ok) => Store = last.before
  /\ (last.op = "deleteWord" /\ last.ok) =>
       LET id == last.wordId
           b == last.before
       IN /\ id \notin DOMAIN words
          /\ id \notin DOMAIN srs
          /\ \A i \in 1..Len(reviews) : reviews[i].wordId # id
          /\ DOMAIN words = (DOMAIN b.words) \ {id}
          /\ \A w \in DOMAIN words : words[w] = b.words[w]
          /\ DOMAIN srs = (DOMAIN b.srs) \ {id}
          /\ \A w \in DOMAIN srs : srs[w] = b.srs[w]
          /\ reviews = ReviewsOfOthers(b.reviews, id)

\* a word with a review and an SRS record has been deleted while another
\* word with a review and an SRS record stays
C10_Witness ==
  /\ last.op = "deleteWord"
  /\ last.ok
  /\ last.wordId \in DOMAIN last.before.words
  /\ last.wordId \in DOMAIN last.before.srs
  /\ \E i \in 1..Len(last.before.reviews) :
       last.before.reviews[i].wordId = last.wordId
  /\ \E w \in DOMAIN words : w \in DOMAIN srs
  /\ Len(reviews) > 0

----------------------------------------------------------------------------
(* isSlightlyWrong on every pair of short strings *)

MaxTypoLen == 4    \* longest string compared

TypoLetters == {"a", "b", "c"}

Strings(letters, n) == UNION {[1..k -> letters] : k \in 0..n}

InitTypo ==
  /\ words = EmptyTable
  /\ reviews = << >>
  /\ srs = EmptyTable
  /\ now = 0
  /\ tx = NoTx
  /\ last = Idle
  /\ streak = [w \in WordIds |-> 0]
  /\ updates = 0
  /\ page = Unmounted
  /\ manage = ManageIdle
  /\ route = RouteIdle
  /\ \E a \in Strings(TypoLetters, MaxTypoLen), b \in Strings(TypoLetters, MaxTypoLen) :
       typo = [done |-> FALSE, a |-> a, b |-> b, result |-> FALSE]

CallIsSlightlyWrong ==
  /\ ~ typo.done
  /\ typo' = [typo EXCEPT !.done = TRUE, !.result = isSlightlyWrong(typo.a, typo.b)]
  /\ UNCHANGED <<words, reviews, srs, now, tx, last, streak, updates, page, manage, route>>

NextTypo == CallIsSlightlyWrong

SpecTypo == InitTypo /\ [][NextTypo]_vars

Without(s, i) == SubSeq(s, 1, i - 1) \o SubSeq(s, i + 1, Len(s))

\* one substitution, one insertion or one deletion turns a into b
OneEditApart(a, b) ==
  \/ /\ Len(a) = Len(b)
     /\ Cardinality({i \in 1..Len(a) : a[i] # b[i]}) = 1
  \/ /\ Len(a) = Len(b) + 1
     /\ \E i \in 1..Len(a) : Without(a, i) = b
  \/ /\ Len(b) = Len(a) + 1
     /\ \E i \in 1..Len(b) : Without(b, i) = a

\* a is b with two different neighbouring characters exchanged
OneSwapApart(a, b) ==
  /\ Len(a) = Len(b)
  /\ \E i \in 1..(Len(a) - 1) :
       /\ b[i] # b[i + 1]
       /\ a = [b EXCEPT ![i] = b[i + 1], ![i + 1] = b[i]]

\* C8: isSlightlyWrong(a, b) is true exactly when a and b are non-empty and
\* are one edit (Levenshtein distance 1) or one adjacent transposition apart
C8_SlightlyWrongIsReference ==
  typo.done =>
    (typo.result <=>
       /\ typo.a # << >>
       /\ typo.b # << >>
       /\ OneEditApart(typo.a, typo.b) \/ OneSwapApart(typo.a, typo.b))

\* an adjacent transposition in the middle of a word, two substitutions
\* apart, has been accepted
C8_Witness ==
  /\ typo.done
  /\ typo.result
  /\ Len(typo.a) >= 3
  /\ typo.a[1] = typo.b[1]
  /\ ~ OneEditApart(typo.a, typo.b)

----------------------------------------------------------------------------
(* app/page.tsx: StudyPage, with components/ui/LetterBuilder.tsx *)

MaxInputLen == 2   \* letters the learner picks before Check

\* id -> the texts word id can have in the study store
PageTexts ==
  [w \in {1, 2} |->
     IF w = 1 THEN {<< "a", "b" >>}
     ELSE {<< "a" >>, << " ", "B", "a" >>}]

PageAlphabet == << "a", "b", "x" >>

Lower(c) ==
  CASE c = "A" -> "a"
    [] c = "B" -> "b"
    [] OTHER -> c

toLowerCase(str) == [i \in 1..Len(str) |-> Lower(str[i])]

RECURSIVE trimStart(_)
trimStart(str) ==
  IF str # << >> /\ Head(str) = " " THEN trimStart(Tail(str)) ELSE str

RECURSIVE trimEnd(_)
trimEnd(str) ==
  IF str # << >> /\ str[Len(str)] = " "
  THEN trimEnd(SubSeq(str, 1, Len(str) - 1))
  ELSE str

trim(str) == trimEnd(trimStart(str))

NoWord == [id |-> Null, text |-> << >>]

NoRating == [rating |-> "none"]

\* the useState initial values
PageInitial ==
  [mounted |-> TRUE,
   currentWord |-> NoWord,
   userInput |-> << >>,
   phase |-> "listening",
   showHint |-> FALSE,
   showAnswer |-> FALSE,
   wasCorrect |-> "null",
   celebrate |-> FALSE,
   autoRated |-> FALSE,
   isLoading |-> TRUE,
   feedback |-> "",
   isOnboarding |-> FALSE,
   usedIds |-> << >>,        \* LetterBuilder's usedIds
   pending |-> NoRating,     \* the handleRating call awaiting its writes
   nextTimer |-> FALSE,      \* setTimeout(loadNextWord, loadStats) armed
   celebrateTimer |-> FALSE, \* setTimeout(setCelebrate(false)) armed
   checked |-> << >>,        \* the attempts Check has judged for this word
   isSpeaking |-> FALSE,     \* SpeakButton's isSpeaking
   speech |-> << >>]         \* the utterances handed to speechSynthesis

resetStudyState(pg) ==
  [pg EXCEPT !.userInput = << >>,
             !.phase = "listening",
             !.showHint = FALSE,
             !.showAnswer = FALSE,
             !.feedback = "",
             !.wasCorrect = "null",
             !.celebrate = FALSE,
             !.autoRated = FALSE,
             !.usedIds = << >>,
             !.checked = << >>]

\* the page after loadNextWord, getNextWord having returned nextWordId
loadNextWord(pg, nextWordId) ==
  IF nextWordId = Null THEN [pg EXCEPT !.currentWord = NoWord]
  ELSE IF nextWordId \in DOMAIN words
       THEN resetStudyState([pg EXCEPT !.currentWord =
                               [id |-> nextWordId, text |-> words[nextWordId].text]])
       ELSE pg

\* the study card leaves the screen and SpeakButton with it: the utterances
\* it started go on, their callbacks belong to the component that is gone
Unmounting(speech) == [i \in 1..Len(speech) |-> [speech[i] EXCEPT !.stale = TRUE]]

\* the study card is on screen
CardShown ==
  /\ page.mounted
  /\ ~ page.isLoading
  /\ page.currentWord # NoWord
  /\ page.phase # "rating"

\* LetterBuilder: the letters of target.trim(), then the distractors
LetterPool(target) ==
  LET normalized == trim(target)
      present == {Lower(normalized[i]) : i \in 1..Len(normalized)}
      Available(c) == c \notin present
  IN normalized \o SelectSeq(PageAlphabet, Available)

RevealOnlyWhenWrong(correct, slightlyWrong) == ~ correct /\ ~ slightlyWrong

\* setShowAnswer(true), whatever the attempt
RevealOnCheck(correct, slightlyWrong) == TRUE

AutoRatingNearIsNailed(correct, slightlyWrong) ==
  IF correct \/ slightlyWrong THEN "NAILED" ELSE "none"

\* the rating handleCheck hands to handleRating, "none" when it hands none
AutoRating(correct, slightlyWrong) ==
  IF correct THEN "NAILED"
  ELSE IF slightlyWrong THEN "ALMOST"
  ELSE "none"

\* the feedback handleRating will show
Feedback(pg, rating) ==
  LET isCorrect == trim(toLowerCase(pg.userInput)) = toLowerCase(pg.currentWord.text)
  IN IF rating = "NAILED" THEN (IF isCorrect THEN "perfect" ELSE "know")
     ELSE IF rating = "ALMOST" THEN "almost"
     ELSE "stumped"

\* handleRating up to its first await
RatingCall(pg, rating) ==
  [rating |-> rating, wordId |-> pg.currentWord.id, feedback |-> Feedback(pg, rating)]

InitPage ==
  /\ \E ids \in SUBSET {1, 2} :
       /\ \E text \in [ids -> UNION {PageTexts[w] : w \in {1, 2}}] :
            /\ \A w \in ids : text[w] \in PageTexts[w]
            /\ words = [w \in ids |-> [text |-> text[w]]]
       /\ srs = [w \in ids |-> FreshSRS(0)]
  /\ reviews = << >>
  /\ now = 0
  /\ tx = NoTx
  /\ last = Idle
  /\ streak = [w \in WordIds |-> 0]
  /\ updates = 0
  /\ page = PageInitial
  /\ typo = NoCall
  /\ manage = ManageIdle
  /\ route = RouteIdle

\* the mount effect
Initialize ==
  /\ page.mounted /\ page.isLoading
  /\ IF DOMAIN words = {}
     THEN page' = [page EXCEPT !.isOnboarding = TRUE, !.isLoading = FALSE]
     ELSE \E pick \in NextWordChoices(srs, now) :
            page' = [loadNextWord([page EXCEPT !.isOnboarding = FALSE], pick)
                       EXCEPT !.isLoading = FALSE]
  /\ last' = Idle
  /\ UNCHANGED <<words, reviews, srs, now, tx, streak, updates, typo, manage, route>>

\* Listen is pressed and the utterance ends or errors
HandleSpeakEnd ==
  /\ CardShown
  /\ page' = IF page.phase = "listening" THEN [page EXCEPT !.phase = "typing"] ELSE page
  /\ last' = Idle
  /\ UNCHANGED <<words, reviews, srs, now, tx, streak, updates, typo, manage, route>>

LetterBuilderShown == CardShown /\ page.phase # "listening"

HandlePick(unit) ==
  /\ LetterBuilderShown
  /\ Len(page.userInput) < MaxInputLen
  /\ unit \in 1..Len(LetterPool(page.currentWord.text))
  /\ \A i \in 1..Len(page.usedIds) : page.usedIds[i] # unit
  /\ page' = [page EXCEPT
                !.usedIds = Append(@, unit),
                !.userInput = Append(@, LetterPool(page.currentWord.text)[unit])]
  /\ last' = Idle
  /\ UNCHANGED <<words, reviews, srs, now, tx, streak, updates, typo, manage, route>>

HandleBackspace ==
  /\ LetterBuilderShown
  /\ page.userInput # << >>
  /\ page' = [page EXCEPT
                !.usedIds = SubSeq(@, 1, Len(@) - 1),
                !.userInput = SubSeq(@, 1, Len(@) - 1)]
  /\ last' = Idle
  /\ UNCHANGED <<words, reviews, srs, now, tx, streak, updates, typo, manage, route>>

HandleReset ==
  /\ LetterBuilderShown
  /\ page.userInput # << >>
  /\ page' = [page EXCEPT !.usedIds = << >>, !.userInput = << >>]
  /\ last' = Idle
  /\ UNCHANGED <<words, reviews, srs, now, tx, streak, updates, typo, manage, route>>

HandleShowHint ==
  /\ CardShown
  /\ page.phase \in {"typing", "hint"}
  /\ ~ page.showHint
  /\ page' = [page EXCEPT !.showHint = TRUE, !.phase = "hint"]
  /\ last' = Idle
  /\ UNCHANGED <<words, reviews, srs, now, tx, streak, updates, typo, manage, route>>

HandleCheck ==
  /\ CardShown
  /\ page.phase \in {"typing", "hint"}
  /\ ~ page.showAnswer
  /\ LET attempt == toLowerCase(trim(page.userInput))
         target == toLowerCase(trim(page.currentWord.text))
         correct == attempt = target
         slightlyWrong == ~ correct /\ isSlightlyWrong(attempt, target)
         rating == AutoRating(correct, slightlyWrong)
         shown == [page EXCEPT
                     !.showAnswer = RevealOnCheck(correct, slightlyWrong),
                     !.wasCorrect = IF correct THEN "true" ELSE "false",
                     !.checked = Append(@, page.userInput)]
     IN page' = IF rating = "none" THEN [shown EXCEPT !.phase = "answer"]
                ELSE [shown EXCEPT
                        !.celebrate = (@ \/ correct),
                        !.celebrateTimer = (@ \/ correct),
                        !.autoRated = TRUE,
                        !.pending = RatingCall(page, rating)]
  /\ last' = [op |-> "handleCheck", userInput |-> page.userInput,
              text |-> page.currentWord.text]
  /\ UNCHANGED <<words, reviews, srs, now, tx, streak, updates, typo, manage, route>>

RatingBarShown == CardShown /\ ~ page.autoRated /\ page.phase = "answer"

\* a RatingBar button is pressed; one press per shown answer: a second
\* press before the writes of the first are done is left out
HandleRating(rating) ==
  /\ RatingBarShown
  /\ page.pending = NoRating
  /\ page' = [page EXCEPT !.pending = RatingCall(page, rating)]
  /\ last' = Idle
  /\ UNCHANGED <<words, reviews, srs, now, tx, streak, updates, typo, manage, route>>

\* the awaited writes of handleRating are done; the rest of it runs
HandleRatingDone ==
  /\ page.mounted
  /\ page.pending # NoRating
  /\ tx = NoTx
  /\ reviews' = addReview(reviews, page.pending.wordId, page.pending.rating, now)
  /\ srs' = updateSRS(srs, page.pending.wordId, page.pending.rating, now)
  /\ streak' = [streak EXCEPT ![page.pending.wordId] =
                  IF page.pending.rating = "STUMPED" THEN 0 ELSE @ + 1]
  /\ updates' = updates + 1
  /\ page' = [page EXCEPT !.feedback = page.pending.feedback,
                          !.phase = "rating",
                          !.nextTimer = TRUE,
                          !.pending = NoRating,
                          !.isSpeaking = FALSE,
                          !.speech = Unmounting(@)]
  /\ last' = [op |-> "handleRating", wordId |-> page.pending.wordId,
              rating |-> page.pending.rating]
  /\ UNCHANGED <<words, now, tx, typo, manage, route>>

\* two seconds after the rating: loadNextWord, loadStats
NextWordTimeout ==
  /\ page.mounted
  /\ page.nextTimer
  /\ tx = NoTx
  /\ \E pick \in NextWordChoices(srs, now) :
       page' = [loadNextWord(page, pick) EXCEPT !.nextTimer = FALSE]
  /\ last' = [op |-> "loadNextWord"]
  /\ UNCHANGED <<words, reviews, srs, now, tx, streak, updates, typo, manage, route>>

\* two seconds after an exact match: setCelebrate(false)
CelebrateTimeout ==
  /\ page.mounted
  /\ page.celebrateTimer
  /\ page' = [page EXCEPT !.celebrate = FALSE, !.celebrateTimer = FALSE]
  /\ last' = Idle
  /\ UNCHANGED <<words, reviews, srs, now, tx, streak, updates, typo, manage, route>>

NextPage ==
  \/ Initialize
  \/ HandleSpeakEnd
  \/ \E unit \in 1..(MaxInputLen + 3) : HandlePick(unit)
  \/ HandleBackspace
  \/ HandleReset
  \/ HandleShowHint
  \/ HandleCheck
  \/ \E rating \in Ratings : HandleRating(rating)
  \/ HandleRatingDone
  \/ NextWordTimeout
  \/ CelebrateTimeout
  \/ Tick

SpecPage == InitPage /\ [][NextPage]_vars

----------------------------------------------------------------------------
(* Properties of Check *)

Normalized(str) == toLowerCase(trim(str))

ExactMatch(attempt, text) == Normalized(attempt) = Normalized(text)

\* one insert, delete or substitute, or one adjacent transposition
OneSlipApart(attempt, text) ==
  /\ Normalized(attempt) # Normalized(text)
  /\ \/ OneEditApart(Normalized(attempt), Normalized(text))
     \/ OneSwapApart(Normalized(attempt), Normalized(text))

NearMiss(attempt, text) ==
  /\ Normalized(attempt) # << >>
  /\ Normalized(text) # << >>
  /\ OneSlipApart(attempt, text)

LastReview == reviews[Len(reviews)]

\* C7 as stated: every attempt one insert, delete, substitute or adjacent
\* transposition from the target is handed to handleRating as ALMOST
C7_AsStated ==
  (last.op = "handleCheck" /\ OneSlipApart(last.userInput, last.text)) =>
    page.pending.rating = "ALMOST"

\* C7, amended: an exact match is rated NAILED; a near miss of a non-empty
\* attempt against a non-empty target is rated ALMOST; after either, the
\* rating buttons are not shown and the review row written carries that
\* rating; any other attempt hands no rating to handleRating and leads to
\* phase 'answer' with the rating buttons shown
C7_AutoRatingPolicy ==
  /\ last.op = "handleCheck" =>
       LET exact == ExactMatch(last.userInput, last.text)
           near == NearMiss(last.userInput, last.text)
       IN /\ exact => page.pending.rating = "NAILED" /\ page.autoRated
          /\ near => page.pending.rating = "ALMOST" /\ page.autoRated
          /\ (~ exact /\ ~ near) =>
               /\ page.pending = NoRating
               /\ page.phase = "answer"
               /\ RatingBarShown
  /\ (page.mounted /\ RatingBarShown) =>
       /\ Len(page.checked) = 1
       /\ ~ ExactMatch(page.checked[1], page.currentWord.text)
       /\ ~ NearMiss(page.checked[1], page.currentWord.text)
  /\ (last.op = "handleRating" /\ page.autoRated) =>
       /\ LastReview.wordId = page.currentWord.id
       /\ LastReview.rating =
            IF ExactMatch(page.checked[1], page.currentWord.text)
            THEN "NAILED" ELSE "ALMOST"

\* two letters in the wrong order have been rated ALMOST without the
\* learner's help, and the review is written
C7_Witness ==
  /\ last.op = "handleRating"
  /\ page.autoRated
  /\ LastReview.rating = "ALMOST"
  /\ OneSwapApart(Normalized(page.checked[1]), Normalized(page.currentWord.text))
  /\ ~ OneEditApart(Normalized(page.checked[1]), Normalized(page.currentWord.text))

\* C9: Check leaves showAnswer true whatever the attempt, and showAnswer
\* goes back to false only in a step that loads a word
C9_CheckRevealsAnswer ==
  /\ [](last.op = "handleCheck" => page.showAnswer)
  /\ [][(page.mounted /\ page.showAnswer /\ ~ page'.showAnswer) =>
          /\ last'.op = "loadNextWord"
          /\ page'.currentWord # NoWord
          /\ page'.phase = "listening"]_vars

\* Check has revealed the answer of a near miss
C9_Witness ==
  /\ last.op = "handleCheck"
  /\ page.showAnswer
  /\ page.pending.rating = "ALMOST"
  /\ NearMiss(last.userInput, last.text)

----------------------------------------------------------------------------
(* WordRepository.exportData, importData and clearAll.  A table leaves the *)
(* store as the array toArray() makes of it, rows in primary-key order,     *)
(* each row carrying its key; it comes back through bulkAdd.                *)

MaxBatch == 2          \* words one generation adds
MaxExports == 1        \* backups downloaded
MaxImports == 1        \* backups restored
MaxManageUpdates == 1  \* ratings recorded between the manage page's visits

RECURSIVE KeyOrder(_)
\* the keys S in ascending order
KeyOrder(S) ==
  IF S = {} THEN << >>
  ELSE LET m == CHOOSE x \in S : \A y \in S : x <= y
       IN << m >> \o KeyOrder(S \ {m})

\* db.words.toArray()
WordRows(t) ==
  LET ks == KeyOrder(DOMAIN t)
  IN [i \in 1..Len(ks) |-> [id |-> ks[i], text |-> t[ks[i]].text]]

ReviewRowsNone(rs) == << >>

\* db.reviews.toArray(): the auto-increment id of a row is its rank
ReviewRows(rs) ==
  [i \in 1..Len(rs) |->
     [id |-> i, wordId |-> rs[i].wordId, ts |-> rs[i].ts, rating |-> rs[i].rating]]

\* db.srs.toArray()
SRSRows(t) ==
  LET ks == KeyOrder(DOMAIN t)
  IN [i \in 1..Len(ks) |->
        [wordId |-> ks[i], ease |-> t[ks[i]].ease, interval |-> t[ks[i]].interval,
         due |-> t[ks[i]].due, reps |-> t[ks[i]].reps]]

\* what exportData resolves to; arrays names the properties that are arrays
exportData ==
  [arrays |-> {"words", "reviews", "srs"},
   words |-> WordRows(words), reviews |-> ReviewRows(reviews), srs |-> SRSRows(srs)]

RowKeys(rows, key) == {rows[i][key] : i \in 1..Len(rows)}

RowOf(rows, key, k) == rows[CHOOSE i \in 1..Len(rows) : rows[i][key] = k]

\* bulkAdd rejects with a ConstraintError when a key comes twice or is in
\* the table already
BulkAddOk(rows, key, present) ==
  /\ \A i, j \in 1..Len(rows) : rows[i][key] = rows[j][key] => i = j
  /\ RowKeys(rows, key) \cap present = {}

\* db.words.bulkAdd(data.words)
bulkAddWords(t, rows) ==
  [k \in (DOMAIN t) \cup RowKeys(rows, "id") |->
     IF k \in DOMAIN t THEN t[k] ELSE [text |-> RowOf(rows, "id", k).text]]

\* db.reviews.bulkAdd(data.reviews): the rows land in the order of their ids
bulkAddReviews(rs, rows) ==
  LET ks == KeyOrder(RowKeys(rows, "id"))
  IN rs \o [i \in 1..Len(ks) |->
              [wordId |-> RowOf(rows, "id", ks[i]).wordId,
               ts |-> RowOf(rows, "id", ks[i]).ts,
               rating |-> RowOf(rows, "id", ks[i]).rating]]

\* db.srs.bulkAdd(data.srs)
bulkAddSRS(t, rows) ==
  [k \in (DOMAIN t) \cup RowKeys(rows, "wordId") |->
     IF k \in DOMAIN t THEN t[k]
     ELSE [ease |-> RowOf(rows, "wordId", k).ease,
           interval |-> RowOf(rows, "wordId", k).interval,
           due |-> RowOf(rows, "wordId", k).due,
           reps |-> RowOf(rows, "wordId", k).reps]]

ClearedSRSKept(t) == t

\* db.srs.clear()
ClearedSRS(t) == EmptyTable

TxClearWordsUnwrapped ==
  /\ tx.op \in {"importData", "clearAll"} /\ tx.pc = "clearWords"
  /\ words' = EmptyTable
  /\ tx' = [tx EXCEPT !.words = EmptyTable, !.pc = "clearReviews"]
  /\ UNCHANGED <<reviews, srs, now, last, streak, updates, page, typo, manage, route>>

\* db.words.clear() inside the transaction
TxClearWords ==
  /\ tx.op \in {"importData", "clearAll"} /\ tx.pc = "clearWords"
  /\ tx' = [tx EXCEPT !.words = EmptyTable, !.pc = "clearReviews"]
  /\ UNCHANGED <<words, reviews, srs, now, last, streak, updates, page, typo, manage,
                 route>>

TxClearReviews ==
  /\ tx.op \in {"importData", "clearAll"} /\ tx.pc = "clearReviews"
  /\ tx' = [tx EXCEPT !.reviews = << >>, !.pc = "clearSRS"]
  /\ UNCHANGED <<words, reviews, srs, now, last, streak, updates, page, typo, manage,
                 route>>

TxClearSRS ==
  /\ tx.op \in {"importData", "clearAll"} /\ tx.pc = "clearSRS"
  /\ tx' = [tx EXCEPT !.srs = ClearedSRS(@),
                      !.pc = IF tx.op = "clearAll" THEN "commit" ELSE "addWords"]
  /\ UNCHANGED <<words, reviews, srs, now, last, streak, updates, page, typo, manage,
                 route>>

\* the three bulkAdd calls of importData; one that rejects leaves TxAbort as
\* the only way on
TxBulkAddWords ==
  /\ tx.op = "importData" /\ tx.pc = "addWords"
  /\ "words" \in manage.data.arrays
  /\ BulkAddOk(manage.data.words, "id", DOMAIN tx.words)
  /\ tx' = [tx EXCEPT !.words = bulkAddWords(@, manage.data.words), !.pc = "addReviews"]
  /\ UNCHANGED <<words, reviews, srs, now, last, streak, updates, page, typo, manage,
                 route>>

TxBulkAddReviews ==
  /\ tx.op = "importData" /\ tx.pc = "addReviews"
  /\ "reviews" \in manage.data.arrays
  /\ BulkAddOk(manage.data.reviews, "id", 1..Len(tx.reviews))
  /\ tx' = [tx EXCEPT !.reviews = bulkAddReviews(@, manage.data.reviews),
                      !.pc = "addSRS"]
  /\ UNCHANGED <<words, reviews, srs, now, last, streak, updates, page, typo, manage,
                 route>>

TxBulkAddSRS ==
  /\ tx.op = "importData" /\ tx.pc = "addSRS"
  /\ "srs" \in manage.data.arrays
  /\ BulkAddOk(manage.data.srs, "wordId", DOMAIN tx.srs)
  /\ tx' = [tx EXCEPT !.srs = bulkAddSRS(@, manage.data.srs), !.pc = "commit"]
  /\ UNCHANGED <<words, reviews, srs, now, last, streak, updates, page, typo, manage,
                 route>>

----------------------------------------------------------------------------
(* app/manage/page.tsx.  One handler of the page runs at a time, and the   *)
(* learner studies while none does.                                        *)

InitializeEvery(ws, t, n) ==
  [k \in (DOMAIN t) \cup (DOMAIN ws) |-> IF k \in DOMAIN ws THEN FreshSRS(n) ELSE t[k]]

\* loadWords, lines 421-427: initializeSRS for every word that getAllSRS
\* shows no record for
InitializeMissing(ws, t, n) ==
  [k \in (DOMAIN t) \cup (DOMAIN ws) |-> IF k \in DOMAIN t THEN t[k] ELSE FreshSRS(n)]

\* the mount effect
LoadWords ==
  /\ tx = NoTx
  /\ manage.pc = "idle"
  /\ srs' = InitializeMissing(words, srs, now)
  /\ last' = [op |-> "loadWords", before |-> Store, at |-> now]
  /\ UNCHANGED <<words, reviews, now, tx, streak, updates, page, typo, manage, route>>

\* the backups a learner may paste besides the one just downloaded
BackupOneWord ==
  [arrays |-> {"words", "reviews", "srs"},
   words |-> << [id |-> 1, text |-> << "c", "a", "t" >>] >>,
   reviews |-> << >>, srs |-> << >>]

BackupStudied ==
  [arrays |-> {"words", "reviews", "srs"},
   words |-> << [id |-> 1, text |-> << "c", "a", "t" >>] >>,
   reviews |-> << [id |-> 1, wordId |-> 1, ts |-> 0, rating |-> "NAILED"] >>,
   srs |-> << [wordId |-> 1, ease |-> 260, interval |-> 1, due |-> 1, reps |-> 1] >>]

BackupSameIdTwice ==
  [arrays |-> {"words", "reviews", "srs"},
   words |-> << [id |-> 1, text |-> << "c", "a", "t" >>],
                [id |-> 1, text |-> << "c", "a", "t" >>] >>,
   reviews |-> << >>, srs |-> << >>]

BackupWordsOnly ==
  [arrays |-> {"words"},
   words |-> << [id |-> 1, text |-> << "c", "a", "t" >>] >>]

Pasted ==
  {[kind |-> "blank"], [kind |-> "garbage"], [kind |-> "json", data |-> NoData],
   [kind |-> "json", data |-> BackupOneWord], [kind |-> "json", data |-> BackupStudied],
   [kind |-> "json", data |-> BackupSameIdTwice],
   [kind |-> "json", data |-> BackupWordsOnly]}
    \cup (IF manage.snapshot.taken
          THEN {[kind |-> "json", data |-> manage.snapshot.data]} ELSE {})

\* exportData of the page: the download is JSON.stringify of the snapshot
ExportData ==
  /\ tx = NoTx
  /\ manage.pc = "idle"
  /\ manage.exports < MaxExports
  /\ manage' = [manage EXCEPT
                  !.snapshot = [taken |-> TRUE, data |-> exportData, store |-> Store],
                  !.exports = @ + 1]
  /\ last' = [op |-> "exportData"]
  /\ UNCHANGED <<words, reviews, srs, now, tx, streak, updates, page, typo, route>>

\* importDataFromFile up to the call of importData
ImportDataFromFile(text, isConfirmed) ==
  /\ tx = NoTx
  /\ manage.pc = "idle"
  /\ manage.imports < MaxImports
  /\ IF text.kind = "json" /\ "words" \in text.data.arrays /\ isConfirmed
     THEN /\ tx' = Transaction("importData", "clearWords", Null)
          /\ manage' = [manage EXCEPT !.pc = "transaction", !.handler = "importData",
                                      !.data = text.data, !.imports = @ + 1]
          /\ last' = Idle
     ELSE /\ last' = [op |-> "importDataFromFile", ok |-> FALSE, before |-> Store,
                      kind |-> text.kind, isConfirmed |-> isConfirmed]
          /\ UNCHANGED <<tx, manage>>
  /\ UNCHANGED <<words, reviews, srs, now, streak, updates, page, typo, route>>

ClearAllWords ==
  /\ tx = NoTx
  /\ manage.pc = "idle"
  /\ DOMAIN words # {}
  /\ tx' = Transaction("clearAll", "clearWords", Null)
  /\ manage' = [manage EXCEPT !.pc = "transaction", !.handler = "clearAll"]
  /\ last' = Idle
  /\ UNCHANGED <<words, reviews, srs, now, streak, updates, page, typo, route>>

\* deleteWord of the page
ManageDeleteWord(id) ==
  /\ tx = NoTx
  /\ manage.pc = "idle"
  /\ id \in DOMAIN words
  /\ tx' = Transaction("deleteWord", "words", id)
  /\ manage' = [manage EXCEPT !.pc = "transaction", !.handler = "deleteWord"]
  /\ last' = Idle
  /\ UNCHANGED <<words, reviews, srs, now, streak, updates, page, typo, route>>

\* after the awaited repository call: loadWords (and, for an import, the
\* form is emptied)
HandlerResolved ==
  /\ manage.pc = "resolved"
  /\ srs' = InitializeMissing(words, srs, now)
  /\ manage' = [manage EXCEPT !.pc = "idle", !.handler = "none", !.data = NoData]
  /\ last' = [op |-> "reload", handler |-> manage.handler, before |-> Store, at |-> now]
  /\ UNCHANGED <<words, reviews, now, tx, streak, updates, page, typo, route>>

\* the catch block
HandlerRejected ==
  /\ manage.pc = "rejected"
  /\ manage' = [manage EXCEPT !.pc = "idle", !.handler = "none", !.data = NoData]
  /\ last' = [op |-> "catch", handler |-> manage.handler, before |-> Store]
  /\ UNCHANGED <<words, reviews, srs, now, tx, streak, updates, page, typo, route>>

\* generateNewWords up to the await of fetch
GenerateNewWords ==
  /\ tx = NoTx
  /\ manage.pc = "idle"
  /\ manage' = [manage EXCEPT !.pc = "fetch", !.handler = "generateNewWords",
                              !.newIds = {}]
  /\ last' = Idle
  /\ UNCHANGED <<words, reviews, srs, now, tx, streak, updates, page, typo, route>>

\* wordRepository.addWords(rows) with ids for the uuids
addWords(t, ids, text) ==
  [k \in (DOMAIN t) \cup ids |-> IF k \in DOMAIN t THEN t[k] ELSE [text |-> text]]

WordsOnErrorAdded(t, ids, text) == addWords(t, ids, text)

\* the words table after the throw of lines 494-497: addWords is not reached
WordsOnError(t, ids, text) == t

\* fetch rejects ("network"), or the route answers with a status that is
\* not OK; ids and text are what a handler that went on would have added
GenerateFailed(reason, ids, text) ==
  /\ manage.pc = "fetch"
  /\ words' = WordsOnError(words, ids, text)
  /\ manage' = [manage EXCEPT !.pc = "idle", !.handler = "none"]
  /\ last' = [op |-> "generateNewWords", ok |-> FALSE, reason |-> reason,
              before |-> Store]
  /\ UNCHANGED <<reviews, srs, now, tx, streak, updates, page, typo, route>>

\* the route answered 200 with as many words as ids holds
GenerateAddWords(ids, text) ==
  /\ manage.pc = "fetch"
  /\ ids # {}
  /\ Cardinality(ids) <= MaxBatch
  /\ words' = addWords(words, ids, text)
  /\ manage' = [manage EXCEPT !.pc = "init", !.newIds = ids, !.addedAt = now]
  /\ last' = Idle
  /\ UNCHANGED <<reviews, srs, now, tx, streak, updates, page, typo, route>>

\* Promise.all(newIds.map(id => srsRepository.initializeSRS(id)))
GenerateInitializeSRS ==
  /\ manage.pc = "init"
  /\ srs' = [k \in (DOMAIN srs) \cup manage.newIds |->
               IF k \in manage.newIds THEN initializeSRS(srs, k, now)[k] ELSE srs[k]]
  /\ manage' = [manage EXCEPT !.pc = "reload", !.initAt = now]
  /\ last' = Idle
  /\ UNCHANGED <<words, reviews, now, tx, streak, updates, page, typo, route>>

\* await loadWords(), and the handler is done
GenerateReload ==
  /\ manage.pc = "reload"
  /\ srs' = InitializeMissing(words, srs, now)
  /\ manage' = [manage EXCEPT !.pc = "idle", !.handler = "none"]
  /\ last' = [op |-> "generateNewWords", ok |-> TRUE, newIds |-> manage.newIds,
              addedAt |-> manage.addedAt, initAt |-> manage.initAt]
  /\ UNCHANGED <<words, reviews, now, tx, streak, updates, page, typo, route>>

\* the tab is closed or reloaded while a handler waits: its continuation
\* never runs (an open transaction ends through TxAbort)
ClosePage ==
  /\ manage.pc \notin {"idle", "transaction"}
  /\ manage' = [manage EXCEPT !.pc = "idle", !.handler = "none", !.data = NoData]
  /\ last' = Idle
  /\ UNCHANGED <<words, reviews, srs, now, tx, streak, updates, page, typo, route>>

\* a rating on the study page, of a word that was due
StudyRate(id, rating) ==
  /\ manage.pc = "idle"
  /\ id \in DOMAIN words
  /\ id \in DOMAIN srs
  /\ srs[id].due <= now
  /\ updates < MaxManageUpdates
  /\ RateWord(id, rating)

FailureReasons == {"network", "RATE_LIMIT", "WORD_LIMIT", "500"}

NextManage ==
  \/ Tick
  \/ LoadWords
  \/ GenerateNewWords
  \/ \E reason \in FailureReasons, ids \in SUBSET WordIds, text \in Texts :
       ids # {} /\ GenerateFailed(reason, ids, text)
  \/ \E ids \in SUBSET FreshIds, text \in Texts : GenerateAddWords(ids, text)
  \/ GenerateInitializeSRS
  \/ GenerateReload
  \/ ClosePage
  \/ \E id \in WordIds, rating \in Ratings : StudyRate(id, rating)
  \/ \E text \in Pasted, isConfirmed \in BOOLEAN : ImportDataFromFile(text, isConfirmed)
  \/ ClearAllWords
  \/ \E id \in WordIds : ManageDeleteWord(id)
  \/ TxDeleteWord
  \/ TxDeleteReviews
  \/ TxDeleteSRS
  \/ TxClearWords
  \/ TxClearReviews
  \/ TxClearSRS
  \/ TxBulkAddWords
  \/ TxBulkAddReviews
  \/ TxBulkAddSRS
  \/ TxCommit
  \/ TxAbort
  \/ HandlerResolved
  \/ HandlerRejected

SpecManage == Init /\ [][NextManage]_vars

----------------------------------------------------------------------------
(* Backup and restore: exportData and importData among the other writers  *)
(* of the store                                                            *)

NextBackup ==
  \/ Tick
  \/ \E id \in WordIds, text \in Texts : manage.pc = "idle" /\ AddWord(id, text)
  \/ \E id \in DOMAIN words : manage.pc = "idle" /\ InitializeSRS(id)
  \/ \E id \in WordIds, rating \in Ratings : StudyRate(id, rating)
  \/ ExportData
  \/ \E text \in Pasted, isConfirmed \in BOOLEAN : ImportDataFromFile(text, isConfirmed)
  \/ ClearAllWords
  \/ \E id \in WordIds : ManageDeleteWord(id)
  \/ TxDeleteWord
  \/ TxDeleteReviews
  \/ TxDeleteSRS
  \/ TxClearWords
  \/ TxClearReviews
  \/ TxClearSRS
  \/ TxBulkAddWords
  \/ TxBulkAddReviews
  \/ TxBulkAddSRS
  \/ TxCommit
  \/ TxAbort
  \/ HandlerResolved
  \/ HandlerRejected

SpecBackup == Init /\ [][NextBackup]_vars

----------------------------------------------------------------------------
(* Properties of backup and restore *)

Imported == last.op = "importData" /\ last.ok

\* the rows of a backup's reviews without their ids, in the order of the ids
ReviewsInIdOrder(rows, rs) ==
  /\ Len(rs) = Len(rows)
  /\ \E p \in [1..Len(rows) -> 1..Len(rows)] :
       /\ \A i, j \in 1..Len(rows) : rows[i].id < rows[j].id => p[i] < p[j]
       /\ \A i, j \in 1..Len(rows) : p[i] = p[j] => i = j
       /\ \A i \in 1..Len(rows) :
            /\ rs[p[i]].wordId = rows[i].wordId
            /\ rs[p[i]].ts = rows[i].ts
            /\ rs[p[i]].rating = rows[i].rating

\* C11: when importData(data) has committed, the words, reviews and srs
\* tables hold the rows of data.words, data.reviews and data.srs and no
\* other row: whatever was stored before is gone unless data repeats it
C11_ImportIsDestructiveRestore ==
  Imported =>
    LET data == manage.data
    IN /\ DOMAIN words = RowKeys(data.words, "id")
       /\ Len(data.words) = Cardinality(DOMAIN words)
       /\ \A i \in 1..Len(data.words) :
            words[data.words[i].id].text = data.words[i].text
       /\ ReviewsInIdOrder(data.reviews, reviews)
       /\ DOMAIN srs = RowKeys(data.srs, "wordId")
       /\ Len(data.srs) = Cardinality(DOMAIN srs)
       /\ \A i \in 1..Len(data.srs) :
            LET row == data.srs[i]
            IN srs[row.wordId] = [ease |-> row.ease, interval |-> row.interval,
                                  due |-> row.due, reps |-> row.reps]
       /\ \A w \in DOMAIN last.before.words :
            w \in DOMAIN words => w \in RowKeys(data.words, "id")
       /\ \A w \in DOMAIN last.before.srs :
            w \in DOMAIN srs => w \in RowKeys(data.srs, "wordId")

\* a backup with a review has replaced a store that held a word, a review
\* and a schedule the backup does not have
C11_Witness ==
  /\ Imported
  /\ manage.data.reviews # << >>
  /\ last.before.reviews # << >>
  /\ \E w \in DOMAIN last.before.words : w \notin DOMAIN words
  /\ \E w \in DOMAIN last.before.srs : w \notin DOMAIN srs

\* C12: an import that does not complete leaves the three tables as they
\* were: text that is blank, not JSON or without a words array, a declined
\* confirmation, and a transaction that aborts (a bulkAdd rejected); and
\* while the transaction is open the tables still hold what they held
C12_FailedImportChangesNothing ==
  /\ (last.op = "importDataFromFile" /\ ~ last.ok) => Store = last.before
  /\ (last.op = "importData" /\ ~ last.ok) => Store = last.before
  /\ tx.op = "importData" => Store = tx.before

\* a backup that names one id twice was rejected by bulkAdd after the
\* transaction had cleared tables that held a word and a review
C12_Witness ==
  /\ last.op = "importData"
  /\ ~ last.ok
  /\ manage.data = BackupSameIdTwice
  /\ DOMAIN words # {}
  /\ reviews # << >>

\* C13: importing the snapshot exportData returned in store state S leaves
\* the store equal to S, at once or after other writes
C13_ExportImportRoundTrip ==
  (Imported /\ manage.snapshot.taken /\ manage.data = manage.snapshot.data) =>
    Store = manage.snapshot.store

\* a snapshot with a word, a review and a rated schedule was restored over
\* a store that differed from it
C13_Witness ==
  /\ Imported
  /\ manage.snapshot.taken
  /\ manage.data = manage.snapshot.data
  /\ last.before # manage.snapshot.store
  /\ manage.snapshot.store.reviews # << >>
  /\ \E w \in DOMAIN manage.snapshot.store.srs :
       manage.snapshot.store.srs[w].reps > 0
  /\ Store = manage.snapshot.store

----------------------------------------------------------------------------
(* generateNewWords over the tables a study history leaves behind *)

GenKinds == {"absent", "new", "mature"}

InitGenerate ==
  \E kind \in [SelIds -> GenKinds] :
    /\ LET shape == [w \in SelIds |-> SelShape(w, kind[w])]
           present == {w \in SelIds : kind[w] # "absent"}
       IN /\ words = [w \in present |-> [text |-> << "c", "a", "t" >>]]
          /\ srs = [w \in present |-> SelRecord(shape[w])]
          /\ reviews = InTimeOrder(UNION {SelReviewsOf(w, shape[w]) : w \in present})
          /\ streak = [w \in WordIds |->
                         IF w \in present THEN srs[w].reps ELSE 0]
          /\ updates = Len(reviews)
    /\ now = SelBase + NumSelWords
    /\ tx = NoTx
    /\ last = Idle
    /\ page = Unmounted
    /\ typo = NoCall
    /\ manage = ManageIdle
    /\ route = RouteIdle

\* ids of the selection tables that the store does not mention
FreshSelIds ==
  SelIds \ ((DOMAIN words) \cup (DOMAIN srs)
            \cup {reviews[i].wordId : i \in 1..Len(reviews)})

\* time passes between two awaits of the handler
Elapse ==
  /\ manage.pc \in {"init", "reload"}
  /\ now < SelBase + NumSelWords + 1
  /\ now' = now + 1
  /\ last' = Idle
  /\ UNCHANGED <<words, reviews, srs, tx, streak, updates, page, typo, manage, route>>

NextGenerate ==
  \/ GenerateNewWords
  \/ \E reason \in FailureReasons, id \in SelIds, text \in Texts :
       GenerateFailed(reason, {id}, text)
  \/ \E ids \in SUBSET FreshSelIds, text \in Texts : GenerateAddWords(ids, text)
  \/ GenerateInitializeSRS
  \/ GenerateReload
  \/ Elapse
  \/ manage.pc = "idle" /\ GetNextWord

SpecGenerate == InitGenerate /\ [][NextGenerate]_vars

Generated == last.op = "generateNewWords" /\ last.ok

\* w comes before id in the order getNextWord sorts due records in
Precedes(w, id) ==
  \/ srs[w].due < srs[id].due
  \/ (srs[w].due = srs[id].due /\ w < id)

\* getNextWord has id among the records it draws from
CanBePicked(id) ==
  IF Cardinality(EarlyDueNow) >= 2
  THEN Cardinality({w \in EarlyDueNow \ {id} : Precedes(w, id)}) < 5
  ELSE \A w \in DueNow \ {id} : Precedes(id, w)

\* C14 as stated: every added word has a fresh record whose due is the time
\* the word was created, and getNextWord can return it at once
C14_AsStated ==
  Generated =>
    \A id \in last.newIds :
      /\ id \in DOMAIN srs
      /\ srs[id] = [ease |-> 250, interval |-> 0, due |-> last.addedAt, reps |-> 0]
      /\ id \in NextWordChoices(srs, now)

\* C14: when generateNewWords has succeeded every added word has an SRS
\* record with ease 2.5, interval 0, reps 0 and due the time initializeSRS
\* ran for it, between the word's creation and now, so it is due at once;
\* getNextWord can return it at once exactly when it is among the first
\* five early-stage due records or, being the only early-stage due record,
\* is the earliest due record of all
C14_GeneratedWordsAreDue ==
  Generated =>
    \A id \in last.newIds :
      /\ id \in DOMAIN words
      /\ id \in DOMAIN srs
      /\ srs[id] = [ease |-> 250, interval |-> 0, due |-> last.initAt, reps |-> 0]
      /\ last.addedAt <= last.initAt
      /\ last.initAt <= now
      /\ id \in DueNow
      /\ \E i \in 1..Len(getDueWords(srs, now)) : getDueWords(srs, now)[i] = id
      /\ id \in NextWordChoices(srs, now) <=> CanBePicked(id)

\* two words were added at once: both are due, one of them is among the
\* records getNextWord draws from and the other is not
C14_Witness ==
  /\ Generated
  /\ Cardinality(last.newIds) = 2
  /\ \A id \in last.newIds : id \in DueNow
  /\ \E id \in last.newIds : id \in NextWordChoices(srs, now)
  /\ \E id \in last.newIds : id \notin NextWordChoices(srs, now)

----------------------------------------------------------------------------
(* Properties of the manage page *)

Listed == last.op \in {"loadWords", "reload"}

\* C15: a run of loadWords creates a fresh SRS record for each word that
\* had none and for nothing else, leaves every existing SRS record, every
\* word and every review as it was, leaves every word with an SRS record,
\* and a run that follows it at once changes nothing
C15_InitGuardIdempotent ==
  /\ [](Listed =>
          /\ \A w \in DOMAIN last.before.srs :
               w \in DOMAIN srs /\ srs[w] = last.before.srs[w]
          /\ \A w \in (DOMAIN srs) \ (DOMAIN last.before.srs) :
               /\ w \in DOMAIN words
               /\ srs[w] = [ease |-> 250, interval |-> 0, due |-> last.at, reps |-> 0]
          /\ \A w \in DOMAIN words : w \in DOMAIN srs
          /\ words = last.before.words
          /\ reviews = last.before.reviews)
  /\ [][(Listed /\ last'.op = "loadWords") =>
          (words' = words /\ reviews' = reviews /\ srs' = srs)]_vars

\* the page was opened on a store with a rated word and a word that had no
\* SRS record: the first kept its schedule, the second got a fresh one
C15_Witness ==
  /\ last.op = "loadWords"
  /\ \E w \in DOMAIN last.before.srs : last.before.srs[w].reps > 0 /\ srs[w].reps > 0
  /\ \E w \in DOMAIN words : w \notin DOMAIN last.before.srs /\ srs[w].reps = 0

\* C16: a generateNewWords whose fetch rejects or whose response is not OK
\* writes nothing: no step of the handler before a 200 response changes a
\* table, and when it has failed the tables are as they were
C16_GenerationErrorChangesNothing ==
  /\ []((last.op = "generateNewWords" /\ ~ last.ok) => Store = last.before)
  /\ [][(manage.pc = "fetch" /\ manage'.pc # "init") =>
          (words' = words /\ reviews' = reviews /\ srs' = srs)]_vars

\* the route refused a request (rate limit) made from a store that holds a
\* word and a review
C16_Witness ==
  /\ last.op = "generateNewWords"
  /\ ~ last.ok
  /\ last.reason = "RATE_LIMIT"
  /\ DOMAIN words # {}
  /\ reviews # << >>
  /\ DOMAIN words # WordIds

----------------------------------------------------------------------------
(* app/api/generate-words/route.ts: POST.  Times are milliseconds. *)

RATE_LIMIT_WINDOW_MS == 60000

RATE_LIMIT_MAX_REQUESTS == 5

MAX_TOTAL_WORDS == 100

MaxExistingLength == 30

MaxPosts == 7        \* requests served by one process
MaxRoutePosts == 6   \* requests served, their bodies and the model's answers varied

Repeat(c, n) == [i \in 1..n |-> c]

\* Math.ceil(ms / 1000)
\* Math.floor(ms / 1000)
FloorSeconds(ms) == ms \div 1000

\* Math.ceil(ms / 1000), ms non-negative
CeilSeconds(ms) == (ms + 999) \div 1000

OverLimitAtSix(recent) == Len(recent) > RATE_LIMIT_MAX_REQUESTS

\* recentRequests.length >= RATE_LIMIT_MAX_REQUESTS
OverLimit(recent) == Len(recent) >= RATE_LIMIT_MAX_REQUESTS

\* recentRequests.filter(ts => now - ts < RATE_LIMIT_WINDOW_MS)
StillRecent(recent, t) ==
  LET Young(ts) == t - ts < RATE_LIMIT_WINDOW_MS IN SelectSeq(recent, Young)

\* the entries of normalizedExisting; their order only shapes the prompt
normalizedExisting(existingWords) ==
  LET mapped == {toLowerCase(trim(existingWords[i])) : i \in 1..Len(existingWords)}
  IN {w \in mapped : Len(w) > 0 /\ Len(w) <= MaxExistingLength}

\* typeof existingWordCount === 'number' && existingWordCount >= 0
\*   ? existingWordCount : normalizedExisting.length
existingTotal(body) ==
  IF body.count.given /\ body.count.value >= 0
  THEN body.count.value
  ELSE Cardinality(normalizedExisting(body.existingWords))

RECURSIVE Novel(_, _)
\* the second filter of validWords: a text passes when it is neither in
\* existingSet nor in seenGenerated
Novel(rows, seen) ==
  IF rows = << >> THEN << >>
  ELSE IF Head(rows).text \in seen THEN Novel(Tail(rows), seen)
       ELSE << Head(rows) >> \o Novel(Tail(rows), seen \cup {Head(rows).text})

validWords(rows, existing) ==
  LET WellFormed(r) == Len(trim(r.text)) > 0 /\ Len(trim(r.hint)) > 0
      kept == SelectSeq(rows, WellFormed)
      mapped == [i \in 1..Len(kept) |->
                   [text |-> toLowerCase(trim(kept[i].text)), hint |-> trim(kept[i].hint)]]
  IN Novel(mapped, existing)

IsWordChar(c) == c # " "

RECURSIVE RemoveWord(_, _, _)
\* hint.replace(new RegExp(`\\b${escaped}\\b`, 'gi'), ''), from index i on
RemoveWord(h, w, i) ==
  IF i > Len(h) THEN << >>
  ELSE IF /\ i + Len(w) - 1 <= Len(h)
          /\ toLowerCase(SubSeq(h, i, i + Len(w) - 1)) = w
          /\ (i = 1 \/ ~ IsWordChar(h[i - 1]))
          /\ (i + Len(w) > Len(h) \/ ~ IsWordChar(h[i + Len(w)]))
       THEN RemoveWord(h, w, i + Len(w))
       ELSE << h[i] >> \o RemoveWord(h, w, i + 1)

RECURSIVE SkipSpaces(_, _)
SkipSpaces(h, i) == IF i <= Len(h) /\ h[i] = " " THEN SkipSpaces(h, i + 1) ELSE i

RECURSIVE SpacedEnd(_, _, _, _)
\* the index where a match of w[k], \s+, w[k+1], ... that starts at i ends;
\* 0 when there is none
SpacedEnd(h, w, k, i) ==
  IF i > Len(h) \/ Lower(h[i]) # w[k] THEN 0
  ELSE IF k = Len(w) THEN i
  ELSE IF SkipSpaces(h, i + 1) = i + 1 THEN 0
  ELSE SpacedEnd(h, w, k + 1, SkipSpaces(h, i + 1))

RECURSIVE RemoveSpaced(_, _, _)
\* safeHint.replace(spacedRegex, ''), from index i on
RemoveSpaced(h, w, i) ==
  IF i > Len(h) THEN << >>
  ELSE IF SpacedEnd(h, w, 1, i) # 0 THEN RemoveSpaced(h, w, SpacedEnd(h, w, 1, i) + 1)
  ELSE << h[i] >> \o RemoveSpaced(h, w, i + 1)

RECURSIVE CollapseSpaces(_)
\* replace(/\s{2,}/g, ' ')
CollapseSpaces(h) ==
  IF Len(h) < 2 THEN h
  ELSE IF h[1] = " " /\ h[2] = " " THEN CollapseSpaces(Tail(h))
  ELSE << h[1] >> \o CollapseSpaces(Tail(h))

FallbackHint == << "A", " ", "c", "l", "u", "e" >>

sanitizeHint(wordText, hint) ==
  LET cleanedWord == toLowerCase(trim(wordText))
      safeHint == trim(CollapseSpaces(
                    RemoveSpaced(RemoveWord(hint, cleanedWord, 1), cleanedWord, 1)))
  IN IF cleanedWord = << >> THEN hint
     ELSE IF safeHint = << >> THEN FallbackHint
     ELSE safeHint

LimitedNot(valid, remainingSlots) == valid

\* validWords.slice(0, remainingSlots)
Limited(valid, remainingSlots) == SubSeq(valid, 1, Min(Len(valid), remainingSlots))

Refusal(status, code) ==
  [status |-> status, code |-> code, words |-> << >>, retryAfterSeconds |-> 0]

\* the response to a request that passed the limiter
Respond(body, ai, apiKey) ==
  IF ~ body.json THEN Refusal(500, "none")
  ELSE IF ~ body.promptTemplate THEN Refusal(400, "none")
  ELSE IF ~ apiKey THEN Refusal(500, "none")
  ELSE IF existingTotal(body) >= MAX_TOTAL_WORDS THEN Refusal(429, "WORD_LIMIT")
  ELSE IF ai.kind # "words" THEN Refusal(500, "none")
  ELSE LET valid == validWords(ai.words, normalizedExisting(body.existingWords))
           limited == Limited(valid, MAX_TOTAL_WORDS - existingTotal(body))
       IN IF Len(valid) = 0 THEN Refusal(500, "none")
          ELSE [status |-> 200, code |-> "none",
                words |-> [i \in 1..Len(limited) |->
                             [text |-> limited[i].text,
                              hint |-> sanitizeHint(limited[i].text, limited[i].hint)]],
                retryAfterSeconds |-> 0]

\* a request arrives delay ms after the one before it
Post(delay, body, ai) ==
  /\ LET t == route.clock + delay
         recent == StillRecent(route.recentRequests, t)
         retryAfterSeconds ==
           IF OverLimit(recent)
           THEN CeilSeconds(RATE_LIMIT_WINDOW_MS - (t - recent[1]))
           ELSE 0
     IN route' =
          [route EXCEPT
             !.clock = t,
             !.posts = @ + 1,
             !.recentRequests = IF OverLimit(recent) THEN recent ELSE Append(recent, t),
             !.admitted = IF OverLimit(recent) THEN @ ELSE Append(@, t),
             !.refusals =
               IF OverLimit(recent)
               THEN Append(@, [at |-> t, retryAfterSeconds |-> retryAfterSeconds])
               ELSE << >>,
             !.request = [at |-> t, body |-> body, ai |-> ai,
                          admittedBefore |-> route.admitted,
                          refusalsBefore |-> route.refusals],
             !.response =
               IF OverLimit(recent)
               THEN [status |-> 429, code |-> "RATE_LIMIT", words |-> << >>,
                     retryAfterSeconds |-> retryAfterSeconds]
               ELSE Respond(body, ai, route.apiKey)]
  /\ UNCHANGED <<words, reviews, srs, now, tx, last, streak, updates, page, typo, manage>>

NoCount == [given |-> FALSE, value |-> 0]

PlainBody ==
  [json |-> TRUE, promptTemplate |-> TRUE, existingWords |-> << >>, count |-> NoCount]

PlainAnswer ==
  [kind |-> "words", words |-> << [text |-> << "a" >>, hint |-> << "b" >>] >>]

Delays == {0, 1, 999, 30000, 59999, 60000}

InitRoute ==
  /\ words = EmptyTable
  /\ reviews = << >>
  /\ srs = EmptyTable
  /\ now = 0
  /\ tx = NoTx
  /\ last = Idle
  /\ streak = [w \in WordIds |-> 0]
  /\ updates = 0
  /\ page = Unmounted
  /\ typo = NoCall
  /\ manage = ManageIdle
  /\ \E key \in BOOLEAN : route = [RouteIdle EXCEPT !.apiKey = key]

NextLimiter ==
  \E delay \in Delays : route.posts < MaxPosts /\ Post(delay, PlainBody, PlainAnswer)

SpecLimiter == InitRoute /\ [][NextLimiter]_vars

----------------------------------------------------------------------------
(* Properties of the rate limiter *)

Served == route.posts > 0

\* the admitted requests younger than the window when the last request came
YoungAdmitted ==
  {i \in 1..Len(route.request.admittedBefore) :
     route.request.at - route.request.admittedBefore[i] < 60000}

\* C17: of any six requests that passed the limiter the last came 60,000 ms
\* or more after the first, so no window of 60,000 ms holds more than five;
\* a request that finds five admitted requests younger than 60,000 ms is
\* answered 429 RATE_LIMIT and is not recorded, any other request passes;
\* recentRequests never holds more than five timestamps
C17_RateLimit ==
  /\ Len(route.recentRequests) <= 5
  /\ \A i, j \in 1..Len(route.admitted) :
       j >= i + 5 => route.admitted[j] - route.admitted[i] >= 60000
  /\ Served =>
       IF Cardinality(YoungAdmitted) >= 5
       THEN /\ route.response.status = 429
            /\ route.response.code = "RATE_LIMIT"
            /\ route.admitted = route.request.admittedBefore
            /\ route.recentRequests =
                 SubSeq(route.admitted, Len(route.admitted) - 4, Len(route.admitted))
       ELSE /\ route.response.code # "RATE_LIMIT"
            /\ route.admitted = Append(route.request.admittedBefore, route.request.at)
            /\ route.recentRequests[Len(route.recentRequests)] = route.request.at

\* a sixth request inside the window was refused after five had passed, one
\* millisecond before the oldest of them left the window
C17_Witness ==
  /\ Served
  /\ route.response.code = "RATE_LIMIT"
  /\ route.response.status = 429
  /\ route.request.at - route.recentRequests[1] = 59999
  /\ Len(route.admitted) > 5

----------------------------------------------------------------------------
(* POST with the request body and the model's answer varied *)

\* 100 distinct words of at most 25 letters
HundredWords ==
  [i \in 1..100 |-> Repeat(<< "a", "b", "c", "d" >>[((i - 1) % 4) + 1], ((i - 1) \div 4) + 1)]

LongWord == Repeat("a", MaxExistingLength + 1)

ExistingLists ==
  {<< >>,
   << << "a" >> >>,
   << << " ", "A", "b", " " >>, << "a", "b" >> >>,
   << LongWord >>,
   SubSeq(HundredWords, 1, 99),
   HundredWords}

Counts == {NoCount, [given |-> TRUE, value |-> 99], [given |-> TRUE, value |-> 100]}

Bodies ==
  {[json |-> FALSE, promptTemplate |-> TRUE, existingWords |-> << >>, count |-> NoCount],
   [json |-> TRUE, promptTemplate |-> FALSE, existingWords |-> HundredWords,
    count |-> NoCount]}
    \cup {[json |-> TRUE, promptTemplate |-> TRUE, existingWords |-> l,
            count |-> NoCount] : l \in ExistingLists}
    \cup {[json |-> TRUE, promptTemplate |-> TRUE, existingWords |-> << << "a" >> >>,
            count |-> c] : c \in Counts}

\* what the model sent: nothing usable, or a words array
Answers ==
  {[kind |-> "error", words |-> << >>],
   PlainAnswer,
   [kind |-> "words",
    words |-> << [text |-> << " ", "A", "B" >>, hint |-> << "a", " ", "b" >>],
                 [text |-> << "a", "b" >>, hint |-> << "b" >>],
                 [text |-> << "b" >>, hint |-> << "a", " ", "B", " ", "a" >>] >>],
   [kind |-> "words",
    words |-> << [text |-> << " " >>, hint |-> << "b" >>],
                 [text |-> << "b" >>, hint |-> << " " >>] >>],
   [kind |-> "words",
    words |-> << [text |-> LongWord, hint |-> << "b" >>],
                 [text |-> << "e" >>, hint |-> << "b" >>] >>]}

NextRoute ==
  \E delay \in {0, RATE_LIMIT_WINDOW_MS}, body \in Bodies, ai \in Answers :
    route.posts < MaxRoutePosts /\ Post(delay, body, ai)

SpecRoute == InitRoute /\ [][NextRoute]_vars

----------------------------------------------------------------------------
(* Properties of the word ceiling and of duplicate filtering *)

\* the existing total as the client reports it
ReportedTotal ==
  LET body == route.request.body
  IN IF body.count.given /\ body.count.value >= 0 THEN body.count.value
     ELSE Cardinality({w \in {toLowerCase(trim(body.existingWords[i])) :
                                i \in 1..Len(body.existingWords)} :
                         Len(w) > 0 /\ Len(w) <= 30})

Answered == Served /\ route.request.body.json

C19_NoDuplicates ==
  (Answered /\ route.response.status = 200) =>
    LET out == route.response.words
        existing == route.request.body.existingWords
    IN /\ \A i \in 1..Len(out) :
            /\ out[i].text = toLowerCase(trim(out[i].text))
            /\ out[i].text # << >>
            /\ out[i].hint # << >>
            /\ \A j \in 1..Len(existing) :
                 toLowerCase(trim(existing[j])) # out[i].text
       /\ \A i, j \in 1..Len(out) : out[i].text = out[j].text => i = j

\* what the route does keep of C19: the same, for the entries of
\* existingWords that are at most 30 characters long once trimmed
C19_NoDuplicatesOfShortEntries ==
  (Answered /\ route.response.status = 200) =>
    LET out == route.response.words
        existing == route.request.body.existingWords
    IN /\ \A i \in 1..Len(out) :
            /\ out[i].text = toLowerCase(trim(out[i].text))
            /\ out[i].text # << >>
            /\ out[i].hint # << >>
            /\ \A j \in 1..Len(existing) :
                 Len(trim(existing[j])) <= 30 =>
                   toLowerCase(trim(existing[j])) # out[i].text
       /\ \A i, j \in 1..Len(out) : out[i].text = out[j].text => i = j

\* the model repeated an existing word in capitals and a word of its own
\* batch; one word came back, its hint replaced because it spelled the word
C19_Witness ==
  /\ Answered
  /\ route.response.status = 200
  /\ Len(route.request.ai.words) = 3
  /\ route.request.body.existingWords # << >>
  /\ \E i \in 1..Len(route.response.words) :
       route.response.words[i].hint = FallbackHint
  /\ Len(route.response.words) < 3

----------------------------------------------------------------------------
(* SpacedRepetitionService.getStudyStats *)

MaxStatsUpdates == 1   \* ratings explored after the day of study

LearnedInterval == 21

\* db.srs.toArray()
getAllSRS(t) ==
  LET ks == KeyOrder(DOMAIN t) IN [i \in 1..Len(ks) |-> t[ks[i]]]

\* allSRS.filter(srs => srs.interval > 21)
LearnedAbove(rec) == rec.interval > LearnedInterval

\* allSRS.filter(srs => srs.interval >= 21)
Learned(rec) == rec.interval >= LearnedInterval

\* the two reads of Promise.all are issued in one turn of the event loop
\* and see the same table
getStudyStats(t, n) ==
  LET allSRS == getAllSRS(t)
      dueWords == getDueWords(t, n)
      learned == Len(SelectSeq(allSRS, Learned))
  IN [total |-> Len(allSRS), due |-> Len(dueWords), learned |-> learned]

GetStudyStats ==
  /\ tx = NoTx
  /\ last' = [op |-> "getStudyStats", result |-> getStudyStats(srs, now),
              previous |-> IF last.op = "updateSRS" THEN last ELSE Idle]
  /\ UNCHANGED <<words, reviews, srs, now, tx, streak, updates, page, typo, manage, route>>

\* study histories of one word, each a day's ratings in the order given:
\* none; three NAILED (interval 16); four NAILED (interval 45); and one that
\* ends with four successes from ease 1.6 (intervals 1, 6, 11, 21)
StatsHistories ==
  [new |-> << >>,
   young |-> << "NAILED", "NAILED", "NAILED" >>,
   learned |-> << "NAILED", "NAILED", "NAILED", "NAILED" >>,
   threshold |-> << "ALMOST", "ALMOST", "ALMOST", "ALMOST", "NAILED", "NAILED",
                    "STUMPED", "NAILED", "NAILED", "NAILED", "NAILED" >>]

StatsKinds == {"absent"} \cup DOMAIN StatsHistories

RECURSIVE Studied(_, _)
\* the record of a word initialized at t and rated h at t
Studied(h, t) ==
  IF h = << >> THEN FreshSRS(t)
  ELSE UpdatedSRS(Studied(SubSeq(h, 1, Len(h) - 1), t), h[Len(h)], t)

RECURSIVE StudiedReviews(_, _, _)
\* the review rows of the words ks, one word after the other
StudiedReviews(ks, kind, t) ==
  IF ks = << >> THEN << >>
  ELSE LET h == StatsHistories[kind[Head(ks)]]
       IN [i \in 1..Len(h) |-> [wordId |-> Head(ks), ts |-> t, rating |-> h[i]]]
            \o StudiedReviews(Tail(ks), kind, t)

\* the days the learner opens the app on: the first, and the days the
\* records of the histories fall due, and one more
StatsDays == {0, 1, 16, 21, 45, 46}

\* the tables after one day of study; updates counts the ratings from here on
InitStats ==
  \E kind \in [WordIds -> StatsKinds] :
    /\ LET present == {w \in WordIds : kind[w] # "absent"}
       IN /\ words = [w \in present |-> [text |-> << "c", "a", "t" >>]]
          /\ srs = [w \in present |-> Studied(StatsHistories[kind[w]], 0)]
          /\ reviews = StudiedReviews(KeyOrder(present), kind, 0)
          /\ streak = [w \in WordIds |->
                         IF w \in present THEN srs[w].reps ELSE 0]
    /\ updates = 0
    /\ now = 0
    /\ tx = NoTx
    /\ last = Idle
    /\ page = Unmounted
    /\ typo = NoCall
    /\ manage = ManageIdle
    /\ route = RouteIdle

\* the learner comes back on a later day
Later(day) ==
  /\ day > now
  /\ now' = day
  /\ last' = Idle
  /\ UNCHANGED <<words, reviews, srs, tx, streak, updates, page, typo, manage, route>>

NextStats ==
  \/ \E day \in StatsDays : Later(day)
  \/ \E id \in DOMAIN srs, rating \in Ratings :
       updates < MaxStatsUpdates /\ RateWord(id, rating)
  \/ GetStudyStats

SpecStats == InitStats /\ [][NextStats]_vars

----------------------------------------------------------------------------
(* Properties of the study stats *)

StatsRead == last.op = "getStudyStats"

\* the stats were read right after a STUMPED review of a learned word
StumpedLearned ==
  /\ StatsRead
  /\ last.previous.op = "updateSRS"
  /\ last.previous.rating = "STUMPED"
  /\ last.previous.before.interval >= 21

\* C20: getStudyStats returns total = the number of SRS records, due = the
\* number of SRS records with due <= now, learned = the number of SRS
\* records with interval >= 21, so learned <= total and due <= total; read
\* right after a STUMPED review of a learned word, the stats do not count
\* that word as learned
C20_StudyStats ==
  StatsRead =>
    LET stats == last.result
        learnedWords == {w \in DOMAIN srs : srs[w].interval >= 21}
    IN /\ stats.total = Cardinality(DOMAIN srs)
       /\ stats.due = Cardinality({w \in DOMAIN srs : srs[w].due <= now})
       /\ stats.learned = Cardinality(learnedWords)
       /\ stats.learned <= stats.total
       /\ stats.due <= stats.total
       /\ StumpedLearned =>
            /\ last.previous.wordId \notin learnedWords
            /\ stats.learned < stats.total

\* a learned word was STUMPED while another record stood at interval 21:
\* the stats count two records, one of them learned, one of them due
C20_Witness ==
  /\ StumpedLearned
  /\ \E w \in DOMAIN srs : srs[w].interval = 21 /\ srs[w].due <= now
  /\ last.result = [total |-> 2, due |-> 1, learned |-> 1]

----------------------------------------------------------------------------
(* components/ui/SpeakButton.tsx under StudyPage: an utterance keeps the    *)
(* onSpeakEnd it was created with, and with it the phase of the render the  *)
(* Listen button was pressed in.                                            *)

MaxUtterances == 2   \* utterances in flight

\* window.speechSynthesis.cancel(): every utterance leaves the queue and
\* gets its error event
Cancelled(speech) ==
  [i \in 1..Len(speech) |-> [speech[i] EXCEPT !.state = "cancelled"]]

\* Listen is pressed
HandleSpeak ==
  /\ CardShown
  /\ ~ page.isSpeaking
  /\ Len(page.speech) < MaxUtterances
  /\ page' = [page EXCEPT !.speech =
                Append(Cancelled(@),
                       [phase |-> page.phase, state |-> "queued", stale |-> FALSE])]
  /\ last' = Idle
  /\ UNCHANGED <<words, reviews, srs, now, tx, streak, updates, typo, manage, route>>

\* utterance.onstart: setIsSpeaking(true), then handleSpeakStart, which
\* changes nothing
UtteranceStart(i) ==
  /\ page.mounted
  /\ i \in 1..Len(page.speech)
  /\ page.speech[i].state = "queued"
  /\ \A j \in 1..Len(page.speech) : page.speech[j].state # "speaking"
  /\ page' = [page EXCEPT !.speech[i].state = "speaking",
                          !.isSpeaking = IF page.speech[i].stale THEN @ ELSE TRUE]
  /\ last' = Idle
  /\ UNCHANGED <<words, reviews, srs, now, tx, streak, updates, typo, manage, route>>

\* handleSpeakEnd as the render with phase p defined it
handleSpeakEnd(pg, p) == IF p = "listening" THEN [pg EXCEPT !.phase = "typing"] ELSE pg

\* utterance.onend of a spoken utterance, utterance.onerror of any:
\* setIsSpeaking(false), then the handleSpeakEnd the utterance was made with
UtteranceEnd(i) ==
  /\ page.mounted
  /\ i \in 1..Len(page.speech)
  /\ LET u == page.speech[i]
         rest == [j \in 1..(Len(page.speech) - 1) |->
                    IF j < i THEN page.speech[j] ELSE page.speech[j + 1]]
         ended == [page EXCEPT !.speech = rest,
                               !.isSpeaking = IF u.stale THEN @ ELSE FALSE]
     IN page' = handleSpeakEnd(ended, u.phase)
  /\ last' = [op |-> "handleSpeakEnd", phase |-> page.speech[i].phase]
  /\ UNCHANGED <<words, reviews, srs, now, tx, streak, updates, typo, manage, route>>

NextPhase ==
  \/ Initialize
  \/ HandleSpeak
  \/ \E i \in 1..MaxUtterances : UtteranceStart(i)
  \/ \E i \in 1..MaxUtterances : UtteranceEnd(i)
  \/ \E unit \in 1..(MaxInputLen + 3) : HandlePick(unit)
  \/ HandleShowHint
  \/ HandleCheck
  \/ \E rating \in Ratings : HandleRating(rating)
  \/ HandleRatingDone
  \/ NextWordTimeout
  \/ CelebrateTimeout

SpecPhase == InitPage /\ [][NextPhase]_vars

----------------------------------------------------------------------------
(* Properties of the study phase *)

PhaseStep(from, to) == page.phase \in from /\ page'.phase = to

\* the phase changes the interaction model names
ForwardStep ==
  \/ /\ PhaseStep({"listening"}, "typing")
     /\ last'.op = "handleSpeakEnd"
  \/ /\ PhaseStep({"typing"}, "hint")
     /\ ~ page.showHint /\ page'.showHint
  \/ /\ PhaseStep({"typing", "hint"}, "answer")
     /\ last'.op = "handleCheck"
     /\ ~ ExactMatch(last'.userInput, last'.text)
     /\ ~ NearMiss(last'.userInput, last'.text)
  \/ /\ PhaseStep({"typing", "hint", "answer"}, "rating")
     /\ last'.op = "handleRating"
     /\ Len(reviews') = Len(reviews) + 1
  \/ /\ PhaseStep({"rating"}, "listening")
     /\ last'.op = "loadNextWord"
     /\ page'.currentWord # NoWord

\* an utterance made while the phase was 'listening' ends after the phase
\* has moved on, and its handleSpeakEnd sets 'typing'
StaleSpeakEnd ==
  /\ page.phase # "listening"
  /\ page'.phase = "typing"
  /\ last'.op = "handleSpeakEnd"
  /\ last'.phase = "listening"

\* C21: the phase of the page changes only by listening -> typing when an
\* utterance ends or errors, typing -> hint on Hint, typing or hint ->
\* answer on a Check that is neither exact nor a near miss, typing, hint or
\* answer -> rating when a rating has been recorded, and rating ->
\* listening when the next word is loaded
C21_PhaseMovesForward ==
  [][(page.mounted /\ page'.phase # page.phase) => ForwardStep]_vars

\* what holds of the phase: it changes by one of those steps, by the end of
\* an utterance made in phase 'listening', which sets 'typing' whatever
\* the phase has become, or by the load of the next word, which sets
\* 'listening'; nothing else sets 'listening'
C21_ForwardButForStaleSpeech ==
  [][(page.mounted /\ page'.phase # page.phase) =>
       \/ ForwardStep
       \/ StaleSpeakEnd
       \/ page'.phase = "listening" /\ last'.op = "loadNextWord"]_vars

\* Listen was pressed twice before the speech began; the first utterance
\* was cancelled, the learner asked for the hint, and the second utterance
\* ended: the phase is 'typing' again with the hint on screen
C21_Witness ==
  /\ CardShown
  /\ last.op = "handleSpeakEnd"
  /\ last.phase = "listening"
  /\ page.phase = "typing"
  /\ page.showHint

----------------------------------------------------------------------------
(* StudyPage while the manage page, open in another tab, deletes words *)

TxStep == TxDeleteWord \/ TxDeleteReviews \/ TxDeleteSRS \/ TxCommit

NextFeedback ==
  \/ Initialize
  \/ HandleSpeakEnd
  \/ \E unit \in 1..(MaxInputLen + 3) : HandlePick(unit)
  \/ HandleCheck
  \/ \E rating \in Ratings : HandleRating(rating)
  \/ HandleRatingDone
  \/ NextWordTimeout
  \/ ~ page.nextTimer /\ Tick   \* a day is longer than the timer's two seconds
  \/ \E id \in DOMAIN words : DeleteWordBegin(id)
  \/ TxDeleteWord
  \/ TxDeleteReviews
  \/ TxDeleteSRS
  \/ TxCommit

\* the timer handleRating arms fires, and a transaction that was opened
\* runs to its commit
SpecFeedback ==
  /\ InitPage
  /\ [][NextFeedback]_vars
  /\ WF_vars(NextWordTimeout)
  /\ WF_vars(TxStep)

----------------------------------------------------------------------------
(* Properties of the feedback phase *)

FeedbackShown == page.mounted /\ page.currentWord # NoWord /\ page.phase = "rating"

NextWordPresented == page.currentWord # NoWord /\ page.phase = "listening"

NoWordsDueShown == ~ page.isLoading /\ ~ page.isOnboarding /\ page.currentWord = NoWord

\* a due SRS record whose word is gone
OrphanDue == \E w \in (DOMAIN srs) \ (DOMAIN words) : srs[w].due <= now

\* C22: once handleRating has set phase 'rating', the page eventually
\* presents a next due word in phase 'listening' or shows the no-words-due
\* screen
C22_FeedbackEnds == FeedbackShown ~> (NextWordPresented \/ NoWordsDueShown)

\* what holds of the feedback phase: it ends unless a due SRS record is
\* left without its word
C22_FeedbackEndsUnlessOrphanDue ==
  FeedbackShown ~> (NextWordPresented \/ NoWordsDueShown \/ OrphanDue)

\* the feedback card is on screen with its timer spent: getNextWord
\* returned a record whose word getWord did not find
C22_Witness ==
  /\ FeedbackShown
  /\ ~ page.nextTimer
  /\ page.pending = NoRating
  /\ OrphanDue

----------------------------------------------------------------------------
(* Properties of the drift of getNextWord from the schedule *)

\* the due records with a due time strictly before that of record id
DueBefore(id) == {w \in DueNow : srs[w].due < srs[id].due}

\* C23 as stated: the record getNextWord returns has at most 4 due records
\* with a strictly earlier due time
C23_AsStated ==
  (last.op = "getNextWord" /\ last.result # Null) =>
    Cardinality(DueBefore(last.result)) <= 4

\* C23: the record getNextWord returns has at most 4 early-stage (reps < 2)
\* due records with a strictly earlier due time, so at most 4 plus the
\* number of mature (reps >= 2) due records are due before it; with fewer
\* than two early-stage records due, no due record is due before it
C23_DriftBound ==
  (last.op = "getNextWord" /\ last.result # Null) =>
    LET before == DueBefore(last.result)
    IN /\ Cardinality(before \cap EarlyDueNow) <= 4
       /\ Cardinality(before) <= 4 + Cardinality(DueNow \ EarlyDueNow)
       /\ Cardinality(EarlyDueNow) < 2 => before = {}

\* four mature records and two early-stage records are due, the mature
\* ones first, and the later early-stage record has been returned: five
\* due records are due before it
C23_Witness ==
  /\ last.op = "getNextWord"
  /\ last.result # Null
  /\ Cardinality(DueNow \ EarlyDueNow) = 4
  /\ Cardinality(EarlyDueNow) = 2
  /\ Cardinality(DueBefore(last.result)) = 5

----------------------------------------------------------------------------
(* Properties of retryAfterSeconds *)

\* C24: the retryAfterSeconds of a RATE_LIMIT response is an integer from 1
\* to 60, and a request that arrives retryAfterSeconds or more after a
\* RATE_LIMIT response, no request having passed the limiter in between,
\* passes the limiter
C24_RetryAfterSuffices ==
  Served =>
    /\ route.response.code = "RATE_LIMIT" =>
         route.response.retryAfterSeconds \in 1..60
    /\ \A i \in 1..Len(route.request.refusalsBefore) :
         LET refusal == route.request.refusalsBefore[i]
         IN route.request.at >= refusal.at + 1000 * refusal.retryAfterSeconds =>
              route.response.code # "RATE_LIMIT"

\* five requests at once, a sixth 1 ms later refused with retryAfterSeconds
\* 60, and a seventh exactly 60 s after the sixth, which passed
C24_Witness ==
  /\ Served
  /\ route.response.code # "RATE_LIMIT"
  /\ \E i \in 1..Len(route.request.refusalsBefore) :
       LET refusal == route.request.refusalsBefore[i]
       IN /\ refusal.retryAfterSeconds = 60
          /\ route.request.at = refusal.at + 60000
          /\ refusal.at - route.request.admittedBefore[
               Len(route.request.admittedBefore) - 4] = 1

----------------------------------------------------------------------------
(* The study page and the manage page open at once, each handler taken one *)
(* awaited repository call at a time.  page is the study page; manage here  *)
(* holds where the manage page's running handler stands: allWords is what   *)
(* loadWords read, calls the initializeSRS calls not yet done.              *)

MaxIntegrityUpdates == 1   \* ratings recorded

NoHandler == [pc |-> "idle", allWords |-> {}, calls |-> {}]

InitIntegrity ==
  /\ \E ids \in SUBSET WordIds :
       /\ words = [w \in ids |-> [text |-> << "a" >>]]
       /\ srs = [w \in ids |-> FreshSRS(0)]
  /\ reviews = << >>
  /\ now = 0
  /\ tx = NoTx
  /\ last = Idle
  /\ streak = [w \in WordIds |-> 0]
  /\ updates = 0
  /\ page = PageInitial
  /\ typo = NoCall
  /\ manage = NoHandler
  /\ route = RouteIdle

\* ids neither the store nor a running handler mentions
UnusedIds ==
  FreshIds \ ({page.currentWord.id} \cup manage.allWords \cup manage.calls)

\* a RatingBar button is pressed
IntegrityHandleRating(rating) ==
  /\ updates < MaxIntegrityUpdates
  /\ HandleRating(rating)

\* await reviewRepository.addReview(currentWord.id, rating)
HandleRatingAddReview ==
  /\ page.mounted
  /\ page.pending # NoRating
  /\ "step" \notin DOMAIN page.pending
  /\ tx = NoTx
  /\ reviews' = addReview(reviews, page.pending.wordId, page.pending.rating, now)
  /\ page' = [page EXCEPT !.pending =
                [rating |-> page.pending.rating, wordId |-> page.pending.wordId,
                 feedback |-> page.pending.feedback, step |-> "updateSRS"]]
  /\ last' = Idle
  /\ UNCHANGED <<words, srs, now, tx, streak, updates, typo, manage, route>>

\* await spacedRepetitionService.updateSRS(currentWord.id, rating), and the
\* rest of handleRating
HandleRatingUpdateSRS ==
  /\ page.mounted
  /\ page.pending # NoRating
  /\ "step" \in DOMAIN page.pending
  /\ tx = NoTx
  /\ srs' = updateSRS(srs, page.pending.wordId, page.pending.rating, now)
  /\ streak' = [streak EXCEPT ![page.pending.wordId] =
                  IF page.pending.rating = "STUMPED" THEN 0 ELSE @ + 1]
  /\ updates' = updates + 1
  /\ page' = [page EXCEPT !.feedback = page.pending.feedback,
                          !.phase = "rating",
                          !.nextTimer = TRUE,
                          !.pending = NoRating,
                          !.isSpeaking = FALSE,
                          !.speech = Unmounting(@)]
  /\ last' = [op |-> "handleRating", wordId |-> page.pending.wordId,
              rating |-> page.pending.rating]
  /\ UNCHANGED <<words, reviews, now, tx, typo, manage, route>>

\* generateNewWords from the answer of the route on:
\* await wordRepository.addWords(data.words)
GenerateAddWordsCall(ids) ==
  /\ manage.pc = "idle"
  /\ tx = NoTx
  /\ ids # {} /\ ids \subseteq UnusedIds
  /\ words' = addWords(words, ids, << "a" >>)
  /\ manage' = [pc |-> "initializeSRS", allWords |-> {}, calls |-> ids]
  /\ last' = Idle
  /\ UNCHANGED <<reviews, srs, now, tx, streak, updates, page, typo, route>>

\* loadWords: await wordRepository.getAllWords()
LoadWordsGetAllWords ==
  /\ manage.pc \in {"idle", "loadWords"}
  /\ tx = NoTx
  /\ manage' = [pc |-> "getAllSRS", allWords |-> DOMAIN words, calls |-> {}]
  /\ last' = Idle
  /\ UNCHANGED <<words, reviews, srs, now, tx, streak, updates, page, typo, route>>

\* loadWords: await srsRepository.getAllSRS(), and missing is known
LoadWordsGetAllSRS ==
  /\ manage.pc = "getAllSRS"
  /\ tx = NoTx
  /\ LET missing == manage.allWords \ DOMAIN srs
     IN manage' = IF missing = {} THEN NoHandler
                  ELSE [pc |-> "initializeMissing", allWords |-> {}, calls |-> missing]
  /\ last' = Idle
  /\ UNCHANGED <<words, reviews, srs, now, tx, streak, updates, page, typo, route>>

\* one of the initializeSRS calls of Promise.all, in generateNewWords or in
\* loadWords; after the last of generateNewWords comes its loadWords
InitializeSRSCall(id) ==
  /\ manage.pc \in {"initializeSRS", "initializeMissing"}
  /\ id \in manage.calls
  /\ tx = NoTx
  /\ srs' = initializeSRS(srs, id, now)
  /\ streak' = [streak EXCEPT ![id] = 0]
  /\ manage' = IF manage.calls # {id} THEN [manage EXCEPT !.calls = @ \ {id}]
               ELSE IF manage.pc = "initializeSRS"
                    THEN [pc |-> "loadWords", allWords |-> {}, calls |-> {}]
                    ELSE NoHandler
  /\ last' = Idle
  /\ UNCHANGED <<words, reviews, now, tx, updates, page, typo, route>>

\* the manage page is closed or reloaded while a handler waits: the calls
\* it has not made are never made
CloseManagePage ==
  /\ manage.pc # "idle"
  /\ manage' = NoHandler
  /\ last' = Idle
  /\ UNCHANGED <<words, reviews, srs, now, tx, streak, updates, page, typo, route>>

\* wordRepository.clearAll() opens its transaction
ClearAllBegin ==
  /\ tx = NoTx
  /\ DOMAIN words # {}
  /\ tx' = Transaction("clearAll", "clearWords", Null)
  /\ last' = Idle
  /\ UNCHANGED <<words, reviews, srs, now, streak, updates, page, typo, manage, route>>

NextIntegrity ==
  \/ Initialize
  \/ HandleSpeakEnd
  \/ HandleCheck
  \/ \E rating \in Ratings : IntegrityHandleRating(rating)
  \/ HandleRatingAddReview
  \/ HandleRatingUpdateSRS
  \/ NextWordTimeout
  \/ \E ids \in SUBSET WordIds : GenerateAddWordsCall(ids)
  \/ LoadWordsGetAllWords
  \/ LoadWordsGetAllSRS
  \/ \E id \in WordIds : InitializeSRSCall(id)
  \/ CloseManagePage
  \/ \E id \in DOMAIN words : DeleteWordBegin(id)
  \/ TxDeleteWord
  \/ TxDeleteReviews
  \/ TxDeleteSRS
  \/ ClearAllBegin
  \/ TxClearWords
  \/ TxClearReviews
  \/ TxClearSRS
  \/ TxCommit

SpecIntegrity == InitIntegrity /\ [][NextIntegrity]_vars

----------------------------------------------------------------------------
(* Properties of the references between the tables *)

\* every Review and every SRS record refers to the id of an existing Word
ReferentialIntegrity ==
  /\ \A i \in 1..Len(reviews) : reviews[i].wordId \in DOMAIN words
  /\ DOMAIN srs \subseteq DOMAIN words

\* no handler and no transaction is under way
Quiescent == tx = NoTx /\ manage.pc = "idle" /\ page.pending = NoRating

\* C25: after any interleaving of generateNewWords, loadWords, handleRating
\* (addReview then updateSRS), deleteWord and clearAll, every Review and
\* every SRS record refers to the id of an existing Word
C25_ReferentialIntegrity == Quiescent => ReferentialIntegrity

\* what holds of the references: deleteWord and clearAll never break them;
\* the step that breaks them writes a Review or an SRS record for an id
\* that is not, or no longer, in the words table
C25_OrphansAreOfDeletedWords ==
  [][ReferentialIntegrity /\ ~ ReferentialIntegrity' =>
       /\ words' = words
       /\ \/ \E i \in 1..Len(reviews') :
               reviews'[i].wordId \notin DOMAIN words /\ reviews' # reviews
          \/ \E w \in (DOMAIN srs') \ (DOMAIN srs) : w \notin DOMAIN words]_vars

\* handleRating wrote for a word that deleteWord had removed
C25_RatedAfterDelete ==
  /\ Quiescent
  /\ last.op = "handleRating"
  /\ last.wordId \notin DOMAIN words
  /\ last.wordId \in DOMAIN srs
  /\ \E i \in 1..Len(reviews) : reviews[i].wordId = last.wordId

\* deleteWord ran between addReview and updateSRS: the review is gone, the
\* SRS record is there
C25_DeletedBetweenWrites ==
  /\ Quiescent
  /\ last.op = "handleRating"
  /\ last.wordId \notin DOMAIN words
  /\ last.wordId \in DOMAIN srs
  /\ reviews = << >>

\* loadWords is about to initialize a word it read before the word was
\* removed
C25_LoadWordsReadBeforeDelete ==
  /\ manage.pc = "initializeMissing"
  /\ tx = NoTx
  /\ \E w \in manage.calls : w \notin DOMAIN words

\* an initializeSRS call of generateNewWords or loadWords ran after the
\* word was removed
C25_InitializedAfterDelete ==
  /\ Quiescent
  /\ reviews = << >>
  /\ updates = 0
  /\ \E w \in (DOMAIN srs) \ (DOMAIN words) : srs[w] = FreshSRS(now)

====
